---- MODULE Spec2Model ----
(***************************************************************************)
(* Model of daily_digest.py: a linear batch job that loads a JSON history  *)
(* file, asks a model endpoint for a digest, parses the delimited stories, *)
(* and posts them to a chat webhook.                                       *)
(*                                                                         *)
(* Text is modelled as Python models it: a str is a sequence of code       *)
(* points (the numbers ord() gives), so split, strip, startswith, slicing  *)
(* and comparison are computed character by character on any text.  A      *)
(* literal of the source is written as its code points, with the text in a *)
(* comment next to it.  Dates are proleptic Gregorian ordinals             *)
(* (date.toordinal()), formatted by strftime.                              *)
(***************************************************************************)
EXTENDS Integers, Sequences, FiniteSets, TLC

(***************************************************************************)
(* Python str primitives                                                   *)
(***************************************************************************)

\* The code points str.strip() with no argument removes (str.isspace):
\* \t \n \x0b \f \r, \x1c-\x1f, space, \x85, U+00A0, U+1680, U+2000-U+200A,
\* U+2028, U+2029, U+202F, U+205F, U+3000.
Whitespace ==
    (9..13) \cup (28..32) \cup {133, 160, 5760} \cup (8192..8202)
    \cup {8232, 8233, 8239, 8287, 12288}

MinOf(a, b) == IF a <= b THEN a ELSE b

\* s[:n] for n >= 0
Take(s, n) == SubSeq(s, 1, MinOf(n, Len(s)))

\* s[n:] for n >= 0 (n counts dropped characters)
Drop(s, n) == SubSeq(s, n + 1, Len(s))

\* s.startswith(p)
StartsWith(s, p) == Len(p) <= Len(s) /\ SubSeq(s, 1, Len(p)) = p

\* does sep (non-empty) occur in s at index i?
OccursAt(s, sep, i) ==
    /\ i + Len(sep) - 1 <= Len(s)
    /\ s[i] = sep[1]
    /\ SubSeq(s, i, i + Len(sep) - 1) = sep

\* sep in s
Contains(s, sep) ==
    sep = << >> \/ \E i \in 1..(Len(s) - Len(sep) + 1) : OccursAt(s, sep, i)

\* the pieces of s between the occurrences hits (ascending) of sep, an
\* occurrence that overlaps the one before it being no separator
RECURSIVE SplitAt(_, _, _, _)
SplitAt(s, sep, hits, from) ==
    IF hits = << >> THEN << SubSeq(s, from, Len(s)) >>
    ELSE IF Head(hits) < from THEN SplitAt(s, sep, Tail(hits), from)
    ELSE << SubSeq(s, from, Head(hits) - 1) >>
         \o SplitAt(s, sep, Tail(hits), Head(hits) + Len(sep))

\* s.split(sep) for a non-empty sep: leftmost non-overlapping occurrences,
\* always at least one piece
Split(s, sep) ==
    LET hits == SelectSeq([i \in 1..Len(s) |-> i],
                          LAMBDA i : OccursAt(s, sep, i))
    IN SplitAt(s, sep, hits, 1)

\* s.strip()
Strip(s) ==
    IF \A i \in 1..Len(s) : s[i] \in Whitespace THEN << >>
    ELSE LET first == CHOOSE i \in 1..Len(s) :
                         /\ s[i] \notin Whitespace
                         /\ \A j \in 1..(i - 1) : s[j] \in Whitespace
             last == CHOOSE i \in 1..Len(s) :
                         /\ s[i] \notin Whitespace
                         /\ \A j \in (i + 1)..Len(s) : s[j] \in Whitespace
         IN SubSeq(s, first, last)

\* sep.join(parts)
RECURSIVE Join(_, _)
Join(sep, parts) ==
    IF parts = << >> THEN << >>
    ELSE IF Len(parts) = 1 THEN parts[1]
    ELSE parts[1] \o sep \o Join(sep, Tail(parts))

\* a >= b on str: lexicographic by code point, a proper prefix is smaller
RECURSIVE StrGE(_, _)
StrGE(a, b) ==
    IF b = << >> THEN TRUE
    ELSE IF a = << >> THEN FALSE
    ELSE IF Head(a) # Head(b) THEN Head(a) > Head(b)
    ELSE StrGE(Tail(a), Tail(b))

RECURSIVE Flatten(_)
Flatten(ss) == IF ss = << >> THEN << >> ELSE Head(ss) \o Flatten(Tail(ss))

\* is c within one of the ranges << first, last >> of table?
InRanges(c, table) ==
    \E i \in 1..Len(table) : table[i][1] <= c /\ c <= table[i][2]

\* The simple lowercase mapping of the Unicode database of the interpreter
\* (Python 3.11, Unicode 14.0): << first, last, step, delta >> says that the
\* code points first, first + step, ..., last lower to themselves + delta.
LOWER_RANGES ==
    << << 192, 214, 1, 32 >>, << 216, 222, 1, 32 >>, << 256, 302, 2, 1 >>,
       << 306, 310, 2, 1 >>, << 313, 327, 2, 1 >>, << 330, 374, 2, 1 >>,
       << 376, 376, 1, -121 >>, << 377, 381, 2, 1 >>, << 385, 385, 1, 210 >>,
       << 386, 388, 2, 1 >>, << 390, 390, 1, 206 >>, << 391, 391, 1, 1 >>,
       << 393, 394, 1, 205 >>, << 395, 395, 1, 1 >>, << 398, 398, 1, 79 >>,
       << 399, 399, 1, 202 >>, << 400, 400, 1, 203 >>, << 401, 401, 1, 1 >>,
       << 403, 403, 1, 205 >>, << 404, 404, 1, 207 >>, << 406, 406, 1, 211 >>,
       << 407, 407, 1, 209 >>, << 408, 408, 1, 1 >>, << 412, 412, 1, 211 >>,
       << 413, 413, 1, 213 >>, << 415, 415, 1, 214 >>, << 416, 420, 2, 1 >>,
       << 422, 422, 1, 218 >>, << 423, 423, 1, 1 >>, << 425, 425, 1, 218 >>,
       << 428, 428, 1, 1 >>, << 430, 430, 1, 218 >>, << 431, 431, 1, 1 >>,
       << 433, 434, 1, 217 >>, << 435, 437, 2, 1 >>, << 439, 439, 1, 219 >>,
       << 440, 440, 1, 1 >>, << 444, 444, 1, 1 >>, << 452, 452, 1, 2 >>,
       << 453, 453, 1, 1 >>, << 455, 455, 1, 2 >>, << 456, 456, 1, 1 >>,
       << 458, 458, 1, 2 >>, << 459, 475, 2, 1 >>, << 478, 494, 2, 1 >>,
       << 497, 497, 1, 2 >>, << 498, 500, 2, 1 >>, << 502, 502, 1, -97 >>,
       << 503, 503, 1, -56 >>, << 504, 542, 2, 1 >>, << 544, 544, 1, -130 >>,
       << 546, 562, 2, 1 >>, << 570, 570, 1, 10795 >>, << 571, 571, 1, 1 >>,
       << 573, 573, 1, -163 >>, << 574, 574, 1, 10792 >>, << 577, 577, 1, 1 >>,
       << 579, 579, 1, -195 >>, << 580, 580, 1, 69 >>, << 581, 581, 1, 71 >>,
       << 582, 590, 2, 1 >>, << 880, 882, 2, 1 >>, << 886, 886, 1, 1 >>,
       << 895, 895, 1, 116 >>, << 902, 902, 1, 38 >>, << 904, 906, 1, 37 >>,
       << 908, 908, 1, 64 >>, << 910, 911, 1, 63 >>, << 913, 929, 1, 32 >>,
       << 931, 939, 1, 32 >>, << 975, 975, 1, 8 >>, << 984, 1006, 2, 1 >>,
       << 1012, 1012, 1, -60 >>, << 1015, 1015, 1, 1 >>,
       << 1017, 1017, 1, -7 >>, << 1018, 1018, 1, 1 >>,
       << 1021, 1023, 1, -130 >>, << 1024, 1039, 1, 80 >>,
       << 1040, 1071, 1, 32 >>, << 1120, 1152, 2, 1 >>, << 1162, 1214, 2, 1 >>,
       << 1216, 1216, 1, 15 >>, << 1217, 1229, 2, 1 >>, << 1232, 1326, 2, 1 >>,
       << 1329, 1366, 1, 48 >>, << 4256, 4293, 1, 7264 >>,
       << 4295, 4295, 1, 7264 >>, << 4301, 4301, 1, 7264 >>,
       << 5024, 5103, 1, 38864 >>, << 5104, 5109, 1, 8 >>,
       << 7312, 7354, 1, -3008 >>, << 7357, 7359, 1, -3008 >>,
       << 7680, 7828, 2, 1 >>, << 7838, 7838, 1, -7615 >>,
       << 7840, 7934, 2, 1 >>, << 7944, 7951, 1, -8 >>, << 7960, 7965, 1, -8 >>,
       << 7976, 7983, 1, -8 >>, << 7992, 7999, 1, -8 >>,
       << 8008, 8013, 1, -8 >>, << 8025, 8031, 2, -8 >>,
       << 8040, 8047, 1, -8 >>, << 8072, 8079, 1, -8 >>,
       << 8088, 8095, 1, -8 >>, << 8104, 8111, 1, -8 >>,
       << 8120, 8121, 1, -8 >>, << 8122, 8123, 1, -74 >>,
       << 8124, 8124, 1, -9 >>, << 8136, 8139, 1, -86 >>,
       << 8140, 8140, 1, -9 >>, << 8152, 8153, 1, -8 >>,
       << 8154, 8155, 1, -100 >>, << 8168, 8169, 1, -8 >>,
       << 8170, 8171, 1, -112 >>, << 8172, 8172, 1, -7 >>,
       << 8184, 8185, 1, -128 >>, << 8186, 8187, 1, -126 >>,
       << 8188, 8188, 1, -9 >>, << 8486, 8486, 1, -7517 >>,
       << 8490, 8490, 1, -8383 >>, << 8491, 8491, 1, -8262 >>,
       << 8498, 8498, 1, 28 >>, << 8544, 8559, 1, 16 >>, << 8579, 8579, 1, 1 >>,
       << 9398, 9423, 1, 26 >>, << 11264, 11311, 1, 48 >>,
       << 11360, 11360, 1, 1 >>, << 11362, 11362, 1, -10743 >>,
       << 11363, 11363, 1, -3814 >>, << 11364, 11364, 1, -10727 >>,
       << 11367, 11371, 2, 1 >>, << 11373, 11373, 1, -10780 >>,
       << 11374, 11374, 1, -10749 >>, << 11375, 11375, 1, -10783 >>,
       << 11376, 11376, 1, -10782 >>, << 11378, 11378, 1, 1 >>,
       << 11381, 11381, 1, 1 >>, << 11390, 11391, 1, -10815 >>,
       << 11392, 11490, 2, 1 >>, << 11499, 11501, 2, 1 >>,
       << 11506, 11506, 1, 1 >>, << 42560, 42604, 2, 1 >>,
       << 42624, 42650, 2, 1 >>, << 42786, 42798, 2, 1 >>,
       << 42802, 42862, 2, 1 >>, << 42873, 42875, 2, 1 >>,
       << 42877, 42877, 1, -35332 >>, << 42878, 42886, 2, 1 >>,
       << 42891, 42891, 1, 1 >>, << 42893, 42893, 1, -42280 >>,
       << 42896, 42898, 2, 1 >>, << 42902, 42920, 2, 1 >>,
       << 42922, 42922, 1, -42308 >>, << 42923, 42923, 1, -42319 >>,
       << 42924, 42924, 1, -42315 >>, << 42925, 42925, 1, -42305 >>,
       << 42926, 42926, 1, -42308 >>, << 42928, 42928, 1, -42258 >>,
       << 42929, 42929, 1, -42282 >>, << 42930, 42930, 1, -42261 >>,
       << 42931, 42931, 1, 928 >>, << 42932, 42946, 2, 1 >>,
       << 42948, 42948, 1, -48 >>, << 42949, 42949, 1, -42307 >>,
       << 42950, 42950, 1, -35384 >>, << 42951, 42953, 2, 1 >>,
       << 42960, 42960, 1, 1 >>, << 42966, 42968, 2, 1 >>,
       << 42997, 42997, 1, 1 >>, << 65313, 65338, 1, 32 >>,
       << 66560, 66599, 1, 40 >>, << 66736, 66771, 1, 40 >>,
       << 66928, 66938, 1, 39 >>, << 66940, 66954, 1, 39 >>,
       << 66956, 66962, 1, 39 >>, << 66964, 66965, 1, 39 >>,
       << 68736, 68786, 1, 64 >>, << 71840, 71871, 1, 32 >>,
       << 93760, 93791, 1, 32 >>, << 125184, 125217, 1, 34 >> >>

\* The cased code points that are not case-ignorable, as << first, last >>.
CASED_RANGES ==
    << << 65, 90 >>, << 97, 122 >>, << 170, 170 >>, << 181, 181 >>,
       << 186, 186 >>, << 192, 214 >>, << 216, 246 >>, << 248, 442 >>,
       << 444, 447 >>, << 452, 659 >>, << 661, 687 >>, << 880, 883 >>,
       << 886, 887 >>, << 891, 893 >>, << 895, 895 >>, << 902, 902 >>,
       << 904, 906 >>, << 908, 908 >>, << 910, 929 >>, << 931, 1013 >>,
       << 1015, 1153 >>, << 1162, 1327 >>, << 1329, 1366 >>, << 1376, 1416 >>,
       << 4256, 4293 >>, << 4295, 4295 >>, << 4301, 4301 >>, << 4304, 4346 >>,
       << 4349, 4351 >>, << 5024, 5109 >>, << 5112, 5117 >>, << 7296, 7304 >>,
       << 7312, 7354 >>, << 7357, 7359 >>, << 7424, 7467 >>, << 7531, 7543 >>,
       << 7545, 7578 >>, << 7680, 7957 >>, << 7960, 7965 >>, << 7968, 8005 >>,
       << 8008, 8013 >>, << 8016, 8023 >>, << 8025, 8025 >>, << 8027, 8027 >>,
       << 8029, 8029 >>, << 8031, 8061 >>, << 8064, 8116 >>, << 8118, 8124 >>,
       << 8126, 8126 >>, << 8130, 8132 >>, << 8134, 8140 >>, << 8144, 8147 >>,
       << 8150, 8155 >>, << 8160, 8172 >>, << 8178, 8180 >>, << 8182, 8188 >>,
       << 8450, 8450 >>, << 8455, 8455 >>, << 8458, 8467 >>, << 8469, 8469 >>,
       << 8473, 8477 >>, << 8484, 8484 >>, << 8486, 8486 >>, << 8488, 8488 >>,
       << 8490, 8493 >>, << 8495, 8500 >>, << 8505, 8505 >>, << 8508, 8511 >>,
       << 8517, 8521 >>, << 8526, 8526 >>, << 8544, 8575 >>, << 8579, 8580 >>,
       << 9398, 9449 >>, << 11264, 11387 >>, << 11390, 11492 >>,
       << 11499, 11502 >>, << 11506, 11507 >>, << 11520, 11557 >>,
       << 11559, 11559 >>, << 11565, 11565 >>, << 42560, 42605 >>,
       << 42624, 42651 >>, << 42786, 42863 >>, << 42865, 42887 >>,
       << 42891, 42894 >>, << 42896, 42954 >>, << 42960, 42961 >>,
       << 42963, 42963 >>, << 42965, 42969 >>, << 42997, 42998 >>,
       << 43002, 43002 >>, << 43824, 43866 >>, << 43872, 43880 >>,
       << 43888, 43967 >>, << 64256, 64262 >>, << 64275, 64279 >>,
       << 65313, 65338 >>, << 65345, 65370 >>, << 66560, 66639 >>,
       << 66736, 66771 >>, << 66776, 66811 >>, << 66928, 66938 >>,
       << 66940, 66954 >>, << 66956, 66962 >>, << 66964, 66965 >>,
       << 66967, 66977 >>, << 66979, 66993 >>, << 66995, 67001 >>,
       << 67003, 67004 >>, << 68736, 68786 >>, << 68800, 68850 >>,
       << 71840, 71903 >>, << 93760, 93823 >>, << 119808, 119892 >>,
       << 119894, 119964 >>, << 119966, 119967 >>, << 119970, 119970 >>,
       << 119973, 119974 >>, << 119977, 119980 >>, << 119982, 119993 >>,
       << 119995, 119995 >>, << 119997, 120003 >>, << 120005, 120069 >>,
       << 120071, 120074 >>, << 120077, 120084 >>, << 120086, 120092 >>,
       << 120094, 120121 >>, << 120123, 120126 >>, << 120128, 120132 >>,
       << 120134, 120134 >>, << 120138, 120144 >>, << 120146, 120485 >>,
       << 120488, 120512 >>, << 120514, 120538 >>, << 120540, 120570 >>,
       << 120572, 120596 >>, << 120598, 120628 >>, << 120630, 120654 >>,
       << 120656, 120686 >>, << 120688, 120712 >>, << 120714, 120744 >>,
       << 120746, 120770 >>, << 120772, 120779 >>, << 122624, 122633 >>,
       << 122635, 122654 >>, << 125184, 125251 >>, << 127280, 127305 >>,
       << 127312, 127337 >>, << 127344, 127369 >> >>

\* The case-ignorable code points, as << first, last >>.
CASE_IGNORABLE_RANGES ==
    << << 39, 39 >>, << 46, 46 >>, << 58, 58 >>, << 94, 94 >>, << 96, 96 >>,
       << 168, 168 >>, << 173, 173 >>, << 175, 175 >>, << 180, 180 >>,
       << 183, 184 >>, << 688, 879 >>, << 884, 885 >>, << 890, 890 >>,
       << 900, 901 >>, << 903, 903 >>, << 1155, 1161 >>, << 1369, 1369 >>,
       << 1375, 1375 >>, << 1425, 1469 >>, << 1471, 1471 >>, << 1473, 1474 >>,
       << 1476, 1477 >>, << 1479, 1479 >>, << 1524, 1524 >>, << 1536, 1541 >>,
       << 1552, 1562 >>, << 1564, 1564 >>, << 1600, 1600 >>, << 1611, 1631 >>,
       << 1648, 1648 >>, << 1750, 1757 >>, << 1759, 1768 >>, << 1770, 1773 >>,
       << 1807, 1807 >>, << 1809, 1809 >>, << 1840, 1866 >>, << 1958, 1968 >>,
       << 2027, 2037 >>, << 2042, 2042 >>, << 2045, 2045 >>, << 2070, 2093 >>,
       << 2137, 2139 >>, << 2184, 2184 >>, << 2192, 2193 >>, << 2200, 2207 >>,
       << 2249, 2306 >>, << 2362, 2362 >>, << 2364, 2364 >>, << 2369, 2376 >>,
       << 2381, 2381 >>, << 2385, 2391 >>, << 2402, 2403 >>, << 2417, 2417 >>,
       << 2433, 2433 >>, << 2492, 2492 >>, << 2497, 2500 >>, << 2509, 2509 >>,
       << 2530, 2531 >>, << 2558, 2558 >>, << 2561, 2562 >>, << 2620, 2620 >>,
       << 2625, 2626 >>, << 2631, 2632 >>, << 2635, 2637 >>, << 2641, 2641 >>,
       << 2672, 2673 >>, << 2677, 2677 >>, << 2689, 2690 >>, << 2748, 2748 >>,
       << 2753, 2757 >>, << 2759, 2760 >>, << 2765, 2765 >>, << 2786, 2787 >>,
       << 2810, 2815 >>, << 2817, 2817 >>, << 2876, 2876 >>, << 2879, 2879 >>,
       << 2881, 2884 >>, << 2893, 2893 >>, << 2901, 2902 >>, << 2914, 2915 >>,
       << 2946, 2946 >>, << 3008, 3008 >>, << 3021, 3021 >>, << 3072, 3072 >>,
       << 3076, 3076 >>, << 3132, 3132 >>, << 3134, 3136 >>, << 3142, 3144 >>,
       << 3146, 3149 >>, << 3157, 3158 >>, << 3170, 3171 >>, << 3201, 3201 >>,
       << 3260, 3260 >>, << 3263, 3263 >>, << 3270, 3270 >>, << 3276, 3277 >>,
       << 3298, 3299 >>, << 3328, 3329 >>, << 3387, 3388 >>, << 3393, 3396 >>,
       << 3405, 3405 >>, << 3426, 3427 >>, << 3457, 3457 >>, << 3530, 3530 >>,
       << 3538, 3540 >>, << 3542, 3542 >>, << 3633, 3633 >>, << 3636, 3642 >>,
       << 3654, 3662 >>, << 3761, 3761 >>, << 3764, 3772 >>, << 3782, 3782 >>,
       << 3784, 3789 >>, << 3864, 3865 >>, << 3893, 3893 >>, << 3895, 3895 >>,
       << 3897, 3897 >>, << 3953, 3966 >>, << 3968, 3972 >>, << 3974, 3975 >>,
       << 3981, 3991 >>, << 3993, 4028 >>, << 4038, 4038 >>, << 4141, 4144 >>,
       << 4146, 4151 >>, << 4153, 4154 >>, << 4157, 4158 >>, << 4184, 4185 >>,
       << 4190, 4192 >>, << 4209, 4212 >>, << 4226, 4226 >>, << 4229, 4230 >>,
       << 4237, 4237 >>, << 4253, 4253 >>, << 4348, 4348 >>, << 4957, 4959 >>,
       << 5906, 5908 >>, << 5938, 5939 >>, << 5970, 5971 >>, << 6002, 6003 >>,
       << 6068, 6069 >>, << 6071, 6077 >>, << 6086, 6086 >>, << 6089, 6099 >>,
       << 6103, 6103 >>, << 6109, 6109 >>, << 6155, 6159 >>, << 6211, 6211 >>,
       << 6277, 6278 >>, << 6313, 6313 >>, << 6432, 6434 >>, << 6439, 6440 >>,
       << 6450, 6450 >>, << 6457, 6459 >>, << 6679, 6680 >>, << 6683, 6683 >>,
       << 6742, 6742 >>, << 6744, 6750 >>, << 6752, 6752 >>, << 6754, 6754 >>,
       << 6757, 6764 >>, << 6771, 6780 >>, << 6783, 6783 >>, << 6823, 6823 >>,
       << 6832, 6862 >>, << 6912, 6915 >>, << 6964, 6964 >>, << 6966, 6970 >>,
       << 6972, 6972 >>, << 6978, 6978 >>, << 7019, 7027 >>, << 7040, 7041 >>,
       << 7074, 7077 >>, << 7080, 7081 >>, << 7083, 7085 >>, << 7142, 7142 >>,
       << 7144, 7145 >>, << 7149, 7149 >>, << 7151, 7153 >>, << 7212, 7219 >>,
       << 7222, 7223 >>, << 7288, 7293 >>, << 7376, 7378 >>, << 7380, 7392 >>,
       << 7394, 7400 >>, << 7405, 7405 >>, << 7412, 7412 >>, << 7416, 7417 >>,
       << 7468, 7530 >>, << 7544, 7544 >>, << 7579, 7679 >>, << 8125, 8125 >>,
       << 8127, 8129 >>, << 8141, 8143 >>, << 8157, 8159 >>, << 8173, 8175 >>,
       << 8189, 8190 >>, << 8203, 8207 >>, << 8216, 8217 >>, << 8228, 8228 >>,
       << 8231, 8231 >>, << 8234, 8238 >>, << 8288, 8292 >>, << 8294, 8303 >>,
       << 8305, 8305 >>, << 8319, 8319 >>, << 8336, 8348 >>, << 8400, 8432 >>,
       << 11388, 11389 >>, << 11503, 11505 >>, << 11631, 11631 >>,
       << 11647, 11647 >>, << 11744, 11775 >>, << 11823, 11823 >>,
       << 12293, 12293 >>, << 12330, 12333 >>, << 12337, 12341 >>,
       << 12347, 12347 >>, << 12441, 12446 >>, << 12540, 12542 >>,
       << 40981, 40981 >>, << 42232, 42237 >>, << 42508, 42508 >>,
       << 42607, 42610 >>, << 42612, 42621 >>, << 42623, 42623 >>,
       << 42652, 42655 >>, << 42736, 42737 >>, << 42752, 42785 >>,
       << 42864, 42864 >>, << 42888, 42890 >>, << 42994, 42996 >>,
       << 43000, 43001 >>, << 43010, 43010 >>, << 43014, 43014 >>,
       << 43019, 43019 >>, << 43045, 43046 >>, << 43052, 43052 >>,
       << 43204, 43205 >>, << 43232, 43249 >>, << 43263, 43263 >>,
       << 43302, 43309 >>, << 43335, 43345 >>, << 43392, 43394 >>,
       << 43443, 43443 >>, << 43446, 43449 >>, << 43452, 43453 >>,
       << 43471, 43471 >>, << 43493, 43494 >>, << 43561, 43566 >>,
       << 43569, 43570 >>, << 43573, 43574 >>, << 43587, 43587 >>,
       << 43596, 43596 >>, << 43632, 43632 >>, << 43644, 43644 >>,
       << 43696, 43696 >>, << 43698, 43700 >>, << 43703, 43704 >>,
       << 43710, 43711 >>, << 43713, 43713 >>, << 43741, 43741 >>,
       << 43756, 43757 >>, << 43763, 43764 >>, << 43766, 43766 >>,
       << 43867, 43871 >>, << 43881, 43883 >>, << 44005, 44005 >>,
       << 44008, 44008 >>, << 44013, 44013 >>, << 64286, 64286 >>,
       << 64434, 64450 >>, << 65024, 65039 >>, << 65043, 65043 >>,
       << 65056, 65071 >>, << 65106, 65106 >>, << 65109, 65109 >>,
       << 65279, 65279 >>, << 65287, 65287 >>, << 65294, 65294 >>,
       << 65306, 65306 >>, << 65342, 65342 >>, << 65344, 65344 >>,
       << 65392, 65392 >>, << 65438, 65439 >>, << 65507, 65507 >>,
       << 65529, 65531 >>, << 66045, 66045 >>, << 66272, 66272 >>,
       << 66422, 66426 >>, << 67456, 67461 >>, << 67463, 67504 >>,
       << 67506, 67514 >>, << 68097, 68099 >>, << 68101, 68102 >>,
       << 68108, 68111 >>, << 68152, 68154 >>, << 68159, 68159 >>,
       << 68325, 68326 >>, << 68900, 68903 >>, << 69291, 69292 >>,
       << 69446, 69456 >>, << 69506, 69509 >>, << 69633, 69633 >>,
       << 69688, 69702 >>, << 69744, 69744 >>, << 69747, 69748 >>,
       << 69759, 69761 >>, << 69811, 69814 >>, << 69817, 69818 >>,
       << 69821, 69821 >>, << 69826, 69826 >>, << 69837, 69837 >>,
       << 69888, 69890 >>, << 69927, 69931 >>, << 69933, 69940 >>,
       << 70003, 70003 >>, << 70016, 70017 >>, << 70070, 70078 >>,
       << 70089, 70092 >>, << 70095, 70095 >>, << 70191, 70193 >>,
       << 70196, 70196 >>, << 70198, 70199 >>, << 70206, 70206 >>,
       << 70367, 70367 >>, << 70371, 70378 >>, << 70400, 70401 >>,
       << 70459, 70460 >>, << 70464, 70464 >>, << 70502, 70508 >>,
       << 70512, 70516 >>, << 70712, 70719 >>, << 70722, 70724 >>,
       << 70726, 70726 >>, << 70750, 70750 >>, << 70835, 70840 >>,
       << 70842, 70842 >>, << 70847, 70848 >>, << 70850, 70851 >>,
       << 71090, 71093 >>, << 71100, 71101 >>, << 71103, 71104 >>,
       << 71132, 71133 >>, << 71219, 71226 >>, << 71229, 71229 >>,
       << 71231, 71232 >>, << 71339, 71339 >>, << 71341, 71341 >>,
       << 71344, 71349 >>, << 71351, 71351 >>, << 71453, 71455 >>,
       << 71458, 71461 >>, << 71463, 71467 >>, << 71727, 71735 >>,
       << 71737, 71738 >>, << 71995, 71996 >>, << 71998, 71998 >>,
       << 72003, 72003 >>, << 72148, 72151 >>, << 72154, 72155 >>,
       << 72160, 72160 >>, << 72193, 72202 >>, << 72243, 72248 >>,
       << 72251, 72254 >>, << 72263, 72263 >>, << 72273, 72278 >>,
       << 72281, 72283 >>, << 72330, 72342 >>, << 72344, 72345 >>,
       << 72752, 72758 >>, << 72760, 72765 >>, << 72767, 72767 >>,
       << 72850, 72871 >>, << 72874, 72880 >>, << 72882, 72883 >>,
       << 72885, 72886 >>, << 73009, 73014 >>, << 73018, 73018 >>,
       << 73020, 73021 >>, << 73023, 73029 >>, << 73031, 73031 >>,
       << 73104, 73105 >>, << 73109, 73109 >>, << 73111, 73111 >>,
       << 73459, 73460 >>, << 78896, 78904 >>, << 92912, 92916 >>,
       << 92976, 92982 >>, << 92992, 92995 >>, << 94031, 94031 >>,
       << 94095, 94111 >>, << 94176, 94177 >>, << 94179, 94180 >>,
       << 110576, 110579 >>, << 110581, 110587 >>, << 110589, 110590 >>,
       << 113821, 113822 >>, << 113824, 113827 >>, << 118528, 118573 >>,
       << 118576, 118598 >>, << 119143, 119145 >>, << 119155, 119170 >>,
       << 119173, 119179 >>, << 119210, 119213 >>, << 119362, 119364 >>,
       << 121344, 121398 >>, << 121403, 121452 >>, << 121461, 121461 >>,
       << 121476, 121476 >>, << 121499, 121503 >>, << 121505, 121519 >>,
       << 122880, 122886 >>, << 122888, 122904 >>, << 122907, 122913 >>,
       << 122915, 122916 >>, << 122918, 122922 >>, << 123184, 123197 >>,
       << 123566, 123566 >>, << 123628, 123631 >>, << 125136, 125142 >>,
       << 125252, 125259 >>, << 127995, 127999 >>, << 917505, 917505 >>,
       << 917536, 917631 >>, << 917760, 917999 >> >>

\* chr(c).lower(): U+0130 lowers to the two characters i and U+0307, every
\* other code point to one
LowerChar(c) ==
    IF c < 128 THEN (IF 65 <= c /\ c <= 90 THEN << c + 32 >> ELSE << c >>)
    ELSE IF c = 304 THEN << 105, 775 >>
    ELSE LET hits == {i \in 1..Len(LOWER_RANGES) :
                         /\ LOWER_RANGES[i][1] <= c
                         /\ c <= LOWER_RANGES[i][2]
                         /\ (c - LOWER_RANGES[i][1]) % LOWER_RANGES[i][3] = 0}
         IN IF hits = {} THEN << c >>
            ELSE << c + LOWER_RANGES[CHOOSE i \in hits : TRUE][4] >>

\* is the capital sigma at s[i] in the final position of a word? It follows
\* a cased letter and no cased letter follows it, case-ignorable characters
\* skipped on both sides
FinalSigma(s, i) ==
    LET solid(j) == ~InRanges(s[j], CASE_IGNORABLE_RANGES)
        before == {j \in 1..(i - 1) : solid(j)}
        after == {j \in (i + 1)..Len(s) : solid(j)}
        last == CHOOSE j \in before : \A k \in before : k <= j
        next == CHOOSE j \in after : \A k \in after : j <= k
    IN /\ before # {}
       /\ InRanges(s[last], CASED_RANGES)
       /\ (after = {} \/ ~InRanges(s[next], CASED_RANGES))

\* s.lower(): character by character, but for the capital sigma, which
\* lowers to U+03C2 in the final position of a word and to U+03C3 elsewhere
Lower(s) ==
    Flatten([i \in 1..Len(s) |->
                IF s[i] = 931
                THEN << IF FinalSigma(s, i) THEN 962 ELSE 963 >>
                ELSE LowerChar(s[i])])

\* dict.get(key, default) on a dict of str -> str modelled as a function
Get(d, key, default) == IF key \in DOMAIN d THEN d[key] ELSE default

\* d[key] = val
Put(d, key, val) ==
    [k \in (DOMAIN d) \cup {key} |-> IF k = key THEN val ELSE d[k]]

EmptyDict == [k \in {} |-> << >>]

(***************************************************************************)
(* Numbers and dates as text                                               *)
(***************************************************************************)

\* the digit n as a character
Digit(n) == 48 + n

\* str(n) for n >= 0
RECURSIVE NatToStr(_)
NatToStr(n) == IF n < 10 THEN << Digit(n) >>
               ELSE NatToStr(n \div 10) \o << Digit(n % 10) >>

\* str(n) of an int
IntToStr(n) == IF n < 0 THEN << 45 >> (* "-" *) \o NatToStr(0 - n) ELSE NatToStr(n)

\* zero-padded to two digits (%m, %d)
Pad2(n) == << Digit(n \div 10), Digit(n % 10) >>

\* zero-padded to four digits (%Y, years 1000..9999)
Pad4(n) == << Digit(n \div 1000), Digit((n \div 100) % 10),
              Digit((n \div 10) % 10), Digit(n % 10) >>

\* date.fromordinal(o) as [y, m, d]; o = 1 is 0001-01-01
Civil(o) ==
    LET z   == o + 305          \* days since 0000-03-01
        era == z \div 146097
        doe == z - era * 146097
        yoe == (doe - doe \div 1460 + doe \div 36524 - doe \div 146096) \div 365
        doy == doe - (365 * yoe + yoe \div 4 - yoe \div 100)
        mp  == (5 * doy + 2) \div 153
        dd  == doy - (153 * mp + 2) \div 5 + 1
        mm  == IF mp < 10 THEN mp + 3 ELSE mp - 9
        yy  == yoe + era * 400 + (IF mm <= 2 THEN 1 ELSE 0)
    IN [y |-> yy, m |-> mm, d |-> dd]

\* date(y, m, d).toordinal()
ToOrdinal(y, m, d) ==
    LET yy  == IF m <= 2 THEN y - 1 ELSE y
        era == yy \div 400
        yoe == yy - era * 400
        mp  == IF m > 2 THEN m - 3 ELSE m + 9
        doy == (153 * mp + 2) \div 5 + d - 1
        doe == yoe * 365 + yoe \div 4 - yoe \div 100 + doy
    IN era * 146097 + doe - 305

\* strftime("%Y-%m-%d")
StrftimeYmd(o) ==
    LET c == Civil(o) IN Pad4(c.y) \o << 45 >> (* "-" *) \o Pad2(c.m) \o << 45 >> (* "-" *) \o Pad2(c.d)

\* %A
WeekdayName(o) ==
    LET w == o % 7
    IN CASE w = 0 -> << 83, 117, 110, 100, 97, 121 >> (* "Sunday" *)
         [] w = 1 -> << 77, 111, 110, 100, 97, 121 >> (* "Monday" *)
         [] w = 2 -> << 84, 117, 101, 115, 100, 97, 121 >> (* "Tuesday" *)
         [] w = 3 -> << 87, 101, 100, 110, 101, 115, 100, 97, 121 >> (* "Wednesday" *)
         [] w = 4 -> << 84, 104, 117, 114, 115, 100, 97, 121 >> (* "Thursday" *)
         [] w = 5 -> << 70, 114, 105, 100, 97, 121 >> (* "Friday" *)
         [] w = 6 -> << 83, 97, 116, 117, 114, 100, 97, 121 >> (* "Saturday" *)

\* %B
MonthName(m) ==
    CASE m = 1 -> << 74, 97, 110, 117, 97, 114, 121 >> (* "January" *)
      [] m = 2 -> << 70, 101, 98, 114, 117, 97, 114, 121 >> (* "February" *)
      [] m = 3 -> << 77, 97, 114, 99, 104 >> (* "March" *)
      [] m = 4 -> << 65, 112, 114, 105, 108 >> (* "April" *)
      [] m = 5 -> << 77, 97, 121 >> (* "May" *)
      [] m = 6 -> << 74, 117, 110, 101 >> (* "June" *)
      [] m = 7 -> << 74, 117, 108, 121 >> (* "July" *)
      [] m = 8 -> << 65, 117, 103, 117, 115, 116 >> (* "August" *)
      [] m = 9 -> << 83, 101, 112, 116, 101, 109, 98, 101, 114 >> (* "September" *)
      [] m = 10 -> << 79, 99, 116, 111, 98, 101, 114 >> (* "October" *)
      [] m = 11 -> << 78, 111, 118, 101, 109, 98, 101, 114 >> (* "November" *)
      [] m = 12 -> << 68, 101, 99, 101, 109, 98, 101, 114 >> (* "December" *)

\* strftime("%B %d, %Y")
StrftimeBdY(o) ==
    LET c == Civil(o)
    IN MonthName(c.m) \o << 32 >> (* " " *) \o Pad2(c.d) \o << 44, 32 >> (* ", " *) \o Pad4(c.y)

\* strftime("%A, %B %d, %Y")
StrftimeLong(o) == WeekdayName(o) \o << 44, 32 >> (* ", " *) \o StrftimeBdY(o)

(***************************************************************************)
(* Program constants                                                       *)
(***************************************************************************)

HISTORY_DAYS == 3

\* stories[:15]
MAX_STORIES == 15

\* raw_digest[:3000]
FALLBACK_CHARS == 3000

\* response.status_code != 200
HTTP_OK == 200

STORY_SENTINEL == << 61, 61, 61, 83, 84, 79, 82, 89, 61, 61, 61 >> (* "===STORY===" *)

END_SENTINEL == << 61, 61, 61, 69, 78, 68, 61, 61, 61 >> (* "===END===" *)

NL == << 10 >> (* "\n" *)

\* ["TITLE", "URL", "CATEGORY", "SUMMARY", "WHY_IT_MATTERS"]
FIELDS ==
    << << 84, 73, 84, 76, 69 >> (* "TITLE" *),
       << 85, 82, 76 >> (* "URL" *),
       << 67, 65, 84, 69, 71, 79, 82, 89 >> (* "CATEGORY" *),
       << 83, 85, 77, 77, 65, 82, 89 >> (* "SUMMARY" *),
       << 87, 72, 89, 95, 73, 84, 95, 77, 65, 84, 84, 69, 82, 83 >> (* "WHY_IT_MATTERS" *) >>

\* f"{field}:"
Prefix(field) == field \o << 58 >> (* ":" *)

\* the keys main and build_slack_message read
TITLE_KEY == << 116, 105, 116, 108, 101 >> (* "title" *)
URL_KEY == << 117, 114, 108 >> (* "url" *)
CATEGORY_KEY == << 99, 97, 116, 101, 103, 111, 114, 121 >> (* "category" *)
SUMMARY_KEY == << 115, 117, 109, 109, 97, 114, 121 >> (* "summary" *)
WHY_KEY == << 119, 104, 121, 95, 105, 116, 95, 109, 97, 116, 116, 101, 114, 115 >> (* "why_it_matters" *)

(***************************************************************************)
(* JSON values, as json.loads returns them and json.dumps writes them      *)
(*                                                                         *)
(* A value is [t, v]: t is "null", "bool", "num" (an int), "float" (held   *)
(* as the text repr() gives for it: "1.5", "100.0", "nan"), "str" (code    *)
(* points), "list" (a sequence of values) or "dict" (a sequence of         *)
(* [key, val] with distinct str keys, in insertion order, as a Python dict *)
(* keeps them).                                                            *)
(***************************************************************************)

JNull == [t |-> "null", v |-> 0]
JBool(b) == [t |-> "bool", v |-> b]
JNum(n) == [t |-> "num", v |-> n]
JFloat(r) == [t |-> "float", v |-> r]
JStr(s) == [t |-> "str", v |-> s]
JList(xs) == [t |-> "list", v |-> xs]
JDict(kvs) == [t |-> "dict", v |-> kvs]
KV(k, x) == [key |-> k, val |-> x]

\* bool(x): None, False, 0, 0.0, "", [] and {} are falsy
Truthy(x) ==
    CASE x.t = "null" -> FALSE
      [] x.t = "bool" -> x.v
      [] x.t = "num" -> x.v # 0
      [] x.t = "float" -> x.v \notin {<< 48, 46, 48 >> (* "0.0" *), << 45, 48, 46, 48 >> (* "-0.0" *)}
      [] OTHER -> x.v # << >>

\* can "for y in x" start? (None, bool, int and float raise TypeError)
Iterable(x) == x.t \in {"list", "dict", "str"}

\* what "for y in x" yields: the elements of a list, the keys of a dict,
\* the characters of a str
IterItems(x) ==
    CASE x.t = "list" -> x.v
      [] x.t = "dict" -> [i \in 1..Len(x.v) |-> JStr(x.v[i].key)]
      [] x.t = "str" -> [i \in 1..Len(x.v) |-> JStr(<< x.v[i] >>)]

\* d.get(key, default) on a JSON object
DictGet(d, key, default) ==
    IF \E i \in 1..Len(d.v) : d.v[i].key = key
    THEN d.v[CHOOSE i \in 1..Len(d.v) : d.v[i].key = key].val
    ELSE default

\* d[key] = value: replaces in place, or appends a new key
SetItem(d, key, value) ==
    IF \E i \in 1..Len(d.v) : d.v[i].key = key
    THEN JDict([i \in 1..Len(d.v) |->
                  IF d.v[i].key = key THEN KV(key, value) ELSE d.v[i]])
    ELSE JDict(Append(d.v, KV(key, value)))

HexDigit(n) == IF n < 10 THEN 48 + n ELSE 87 + n

\* the last n hexadecimal digits of c
RECURSIVE Hex(_, _)
Hex(c, n) == IF n = 0 THEN << >> ELSE Hex(c \div 16, n - 1) \o << HexDigit(c % 16) >>

\* The code points str.isprintable() rejects, as << first, last >>: the
\* control, format, surrogate, private-use and unassigned code points and
\* the separators other than the space.
UNPRINTABLE_RANGES ==
    << << 127, 160 >>, << 173, 173 >>, << 888, 889 >>, << 896, 899 >>,
       << 907, 907 >>, << 909, 909 >>, << 930, 930 >>, << 1328, 1328 >>,
       << 1367, 1368 >>, << 1419, 1420 >>, << 1424, 1424 >>, << 1480, 1487 >>,
       << 1515, 1518 >>, << 1525, 1541 >>, << 1564, 1564 >>, << 1757, 1757 >>,
       << 1806, 1807 >>, << 1867, 1868 >>, << 1970, 1983 >>, << 2043, 2044 >>,
       << 2094, 2095 >>, << 2111, 2111 >>, << 2140, 2141 >>, << 2143, 2143 >>,
       << 2155, 2159 >>, << 2191, 2199 >>, << 2274, 2274 >>, << 2436, 2436 >>,
       << 2445, 2446 >>, << 2449, 2450 >>, << 2473, 2473 >>, << 2481, 2481 >>,
       << 2483, 2485 >>, << 2490, 2491 >>, << 2501, 2502 >>, << 2505, 2506 >>,
       << 2511, 2518 >>, << 2520, 2523 >>, << 2526, 2526 >>, << 2532, 2533 >>,
       << 2559, 2560 >>, << 2564, 2564 >>, << 2571, 2574 >>, << 2577, 2578 >>,
       << 2601, 2601 >>, << 2609, 2609 >>, << 2612, 2612 >>, << 2615, 2615 >>,
       << 2618, 2619 >>, << 2621, 2621 >>, << 2627, 2630 >>, << 2633, 2634 >>,
       << 2638, 2640 >>, << 2642, 2648 >>, << 2653, 2653 >>, << 2655, 2661 >>,
       << 2679, 2688 >>, << 2692, 2692 >>, << 2702, 2702 >>, << 2706, 2706 >>,
       << 2729, 2729 >>, << 2737, 2737 >>, << 2740, 2740 >>, << 2746, 2747 >>,
       << 2758, 2758 >>, << 2762, 2762 >>, << 2766, 2767 >>, << 2769, 2783 >>,
       << 2788, 2789 >>, << 2802, 2808 >>, << 2816, 2816 >>, << 2820, 2820 >>,
       << 2829, 2830 >>, << 2833, 2834 >>, << 2857, 2857 >>, << 2865, 2865 >>,
       << 2868, 2868 >>, << 2874, 2875 >>, << 2885, 2886 >>, << 2889, 2890 >>,
       << 2894, 2900 >>, << 2904, 2907 >>, << 2910, 2910 >>, << 2916, 2917 >>,
       << 2936, 2945 >>, << 2948, 2948 >>, << 2955, 2957 >>, << 2961, 2961 >>,
       << 2966, 2968 >>, << 2971, 2971 >>, << 2973, 2973 >>, << 2976, 2978 >>,
       << 2981, 2983 >>, << 2987, 2989 >>, << 3002, 3005 >>, << 3011, 3013 >>,
       << 3017, 3017 >>, << 3022, 3023 >>, << 3025, 3030 >>, << 3032, 3045 >>,
       << 3067, 3071 >>, << 3085, 3085 >>, << 3089, 3089 >>, << 3113, 3113 >>,
       << 3130, 3131 >>, << 3141, 3141 >>, << 3145, 3145 >>, << 3150, 3156 >>,
       << 3159, 3159 >>, << 3163, 3164 >>, << 3166, 3167 >>, << 3172, 3173 >>,
       << 3184, 3190 >>, << 3213, 3213 >>, << 3217, 3217 >>, << 3241, 3241 >>,
       << 3252, 3252 >>, << 3258, 3259 >>, << 3269, 3269 >>, << 3273, 3273 >>,
       << 3278, 3284 >>, << 3287, 3292 >>, << 3295, 3295 >>, << 3300, 3301 >>,
       << 3312, 3312 >>, << 3315, 3327 >>, << 3341, 3341 >>, << 3345, 3345 >>,
       << 3397, 3397 >>, << 3401, 3401 >>, << 3408, 3411 >>, << 3428, 3429 >>,
       << 3456, 3456 >>, << 3460, 3460 >>, << 3479, 3481 >>, << 3506, 3506 >>,
       << 3516, 3516 >>, << 3518, 3519 >>, << 3527, 3529 >>, << 3531, 3534 >>,
       << 3541, 3541 >>, << 3543, 3543 >>, << 3552, 3557 >>, << 3568, 3569 >>,
       << 3573, 3584 >>, << 3643, 3646 >>, << 3676, 3712 >>, << 3715, 3715 >>,
       << 3717, 3717 >>, << 3723, 3723 >>, << 3748, 3748 >>, << 3750, 3750 >>,
       << 3774, 3775 >>, << 3781, 3781 >>, << 3783, 3783 >>, << 3790, 3791 >>,
       << 3802, 3803 >>, << 3808, 3839 >>, << 3912, 3912 >>, << 3949, 3952 >>,
       << 3992, 3992 >>, << 4029, 4029 >>, << 4045, 4045 >>, << 4059, 4095 >>,
       << 4294, 4294 >>, << 4296, 4300 >>, << 4302, 4303 >>, << 4681, 4681 >>,
       << 4686, 4687 >>, << 4695, 4695 >>, << 4697, 4697 >>, << 4702, 4703 >>,
       << 4745, 4745 >>, << 4750, 4751 >>, << 4785, 4785 >>, << 4790, 4791 >>,
       << 4799, 4799 >>, << 4801, 4801 >>, << 4806, 4807 >>, << 4823, 4823 >>,
       << 4881, 4881 >>, << 4886, 4887 >>, << 4955, 4956 >>, << 4989, 4991 >>,
       << 5018, 5023 >>, << 5110, 5111 >>, << 5118, 5119 >>, << 5760, 5760 >>,
       << 5789, 5791 >>, << 5881, 5887 >>, << 5910, 5918 >>, << 5943, 5951 >>,
       << 5972, 5983 >>, << 5997, 5997 >>, << 6001, 6001 >>, << 6004, 6015 >>,
       << 6110, 6111 >>, << 6122, 6127 >>, << 6138, 6143 >>, << 6158, 6158 >>,
       << 6170, 6175 >>, << 6265, 6271 >>, << 6315, 6319 >>, << 6390, 6399 >>,
       << 6431, 6431 >>, << 6444, 6447 >>, << 6460, 6463 >>, << 6465, 6467 >>,
       << 6510, 6511 >>, << 6517, 6527 >>, << 6572, 6575 >>, << 6602, 6607 >>,
       << 6619, 6621 >>, << 6684, 6685 >>, << 6751, 6751 >>, << 6781, 6782 >>,
       << 6794, 6799 >>, << 6810, 6815 >>, << 6830, 6831 >>, << 6863, 6911 >>,
       << 6989, 6991 >>, << 7039, 7039 >>, << 7156, 7163 >>, << 7224, 7226 >>,
       << 7242, 7244 >>, << 7305, 7311 >>, << 7355, 7356 >>, << 7368, 7375 >>,
       << 7419, 7423 >>, << 7958, 7959 >>, << 7966, 7967 >>, << 8006, 8007 >>,
       << 8014, 8015 >>, << 8024, 8024 >>, << 8026, 8026 >>, << 8028, 8028 >>,
       << 8030, 8030 >>, << 8062, 8063 >>, << 8117, 8117 >>, << 8133, 8133 >>,
       << 8148, 8149 >>, << 8156, 8156 >>, << 8176, 8177 >>, << 8181, 8181 >>,
       << 8191, 8207 >>, << 8232, 8239 >>, << 8287, 8303 >>, << 8306, 8307 >>,
       << 8335, 8335 >>, << 8349, 8351 >>, << 8385, 8399 >>, << 8433, 8447 >>,
       << 8588, 8591 >>, << 9255, 9279 >>, << 9291, 9311 >>, << 11124, 11125 >>,
       << 11158, 11158 >>, << 11508, 11512 >>, << 11558, 11558 >>,
       << 11560, 11564 >>, << 11566, 11567 >>, << 11624, 11630 >>,
       << 11633, 11646 >>, << 11671, 11679 >>, << 11687, 11687 >>,
       << 11695, 11695 >>, << 11703, 11703 >>, << 11711, 11711 >>,
       << 11719, 11719 >>, << 11727, 11727 >>, << 11735, 11735 >>,
       << 11743, 11743 >>, << 11870, 11903 >>, << 11930, 11930 >>,
       << 12020, 12031 >>, << 12246, 12271 >>, << 12284, 12288 >>,
       << 12352, 12352 >>, << 12439, 12440 >>, << 12544, 12548 >>,
       << 12592, 12592 >>, << 12687, 12687 >>, << 12772, 12783 >>,
       << 12831, 12831 >>, << 42125, 42127 >>, << 42183, 42191 >>,
       << 42540, 42559 >>, << 42744, 42751 >>, << 42955, 42959 >>,
       << 42962, 42962 >>, << 42964, 42964 >>, << 42970, 42993 >>,
       << 43053, 43055 >>, << 43066, 43071 >>, << 43128, 43135 >>,
       << 43206, 43213 >>, << 43226, 43231 >>, << 43348, 43358 >>,
       << 43389, 43391 >>, << 43470, 43470 >>, << 43482, 43485 >>,
       << 43519, 43519 >>, << 43575, 43583 >>, << 43598, 43599 >>,
       << 43610, 43611 >>, << 43715, 43738 >>, << 43767, 43776 >>,
       << 43783, 43784 >>, << 43791, 43792 >>, << 43799, 43807 >>,
       << 43815, 43815 >>, << 43823, 43823 >>, << 43884, 43887 >>,
       << 44014, 44015 >>, << 44026, 44031 >>, << 55204, 55215 >>,
       << 55239, 55242 >>, << 55292, 63743 >>, << 64110, 64111 >>,
       << 64218, 64255 >>, << 64263, 64274 >>, << 64280, 64284 >>,
       << 64311, 64311 >>, << 64317, 64317 >>, << 64319, 64319 >>,
       << 64322, 64322 >>, << 64325, 64325 >>, << 64451, 64466 >>,
       << 64912, 64913 >>, << 64968, 64974 >>, << 64976, 65007 >>,
       << 65050, 65055 >>, << 65107, 65107 >>, << 65127, 65127 >>,
       << 65132, 65135 >>, << 65141, 65141 >>, << 65277, 65280 >>,
       << 65471, 65473 >>, << 65480, 65481 >>, << 65488, 65489 >>,
       << 65496, 65497 >>, << 65501, 65503 >>, << 65511, 65511 >>,
       << 65519, 65531 >>, << 65534, 65535 >>, << 65548, 65548 >>,
       << 65575, 65575 >>, << 65595, 65595 >>, << 65598, 65598 >>,
       << 65614, 65615 >>, << 65630, 65663 >>, << 65787, 65791 >>,
       << 65795, 65798 >>, << 65844, 65846 >>, << 65935, 65935 >>,
       << 65949, 65951 >>, << 65953, 65999 >>, << 66046, 66175 >>,
       << 66205, 66207 >>, << 66257, 66271 >>, << 66300, 66303 >>,
       << 66340, 66348 >>, << 66379, 66383 >>, << 66427, 66431 >>,
       << 66462, 66462 >>, << 66500, 66503 >>, << 66518, 66559 >>,
       << 66718, 66719 >>, << 66730, 66735 >>, << 66772, 66775 >>,
       << 66812, 66815 >>, << 66856, 66863 >>, << 66916, 66926 >>,
       << 66939, 66939 >>, << 66955, 66955 >>, << 66963, 66963 >>,
       << 66966, 66966 >>, << 66978, 66978 >>, << 66994, 66994 >>,
       << 67002, 67002 >>, << 67005, 67071 >>, << 67383, 67391 >>,
       << 67414, 67423 >>, << 67432, 67455 >>, << 67462, 67462 >>,
       << 67505, 67505 >>, << 67515, 67583 >>, << 67590, 67591 >>,
       << 67593, 67593 >>, << 67638, 67638 >>, << 67641, 67643 >>,
       << 67645, 67646 >>, << 67670, 67670 >>, << 67743, 67750 >>,
       << 67760, 67807 >>, << 67827, 67827 >>, << 67830, 67834 >>,
       << 67868, 67870 >>, << 67898, 67902 >>, << 67904, 67967 >>,
       << 68024, 68027 >>, << 68048, 68049 >>, << 68100, 68100 >>,
       << 68103, 68107 >>, << 68116, 68116 >>, << 68120, 68120 >>,
       << 68150, 68151 >>, << 68155, 68158 >>, << 68169, 68175 >>,
       << 68185, 68191 >>, << 68256, 68287 >>, << 68327, 68330 >>,
       << 68343, 68351 >>, << 68406, 68408 >>, << 68438, 68439 >>,
       << 68467, 68471 >>, << 68498, 68504 >>, << 68509, 68520 >>,
       << 68528, 68607 >>, << 68681, 68735 >>, << 68787, 68799 >>,
       << 68851, 68857 >>, << 68904, 68911 >>, << 68922, 69215 >>,
       << 69247, 69247 >>, << 69290, 69290 >>, << 69294, 69295 >>,
       << 69298, 69375 >>, << 69416, 69423 >>, << 69466, 69487 >>,
       << 69514, 69551 >>, << 69580, 69599 >>, << 69623, 69631 >>,
       << 69710, 69713 >>, << 69750, 69758 >>, << 69821, 69821 >>,
       << 69827, 69839 >>, << 69865, 69871 >>, << 69882, 69887 >>,
       << 69941, 69941 >>, << 69960, 69967 >>, << 70007, 70015 >>,
       << 70112, 70112 >>, << 70133, 70143 >>, << 70162, 70162 >>,
       << 70207, 70271 >>, << 70279, 70279 >>, << 70281, 70281 >>,
       << 70286, 70286 >>, << 70302, 70302 >>, << 70314, 70319 >>,
       << 70379, 70383 >>, << 70394, 70399 >>, << 70404, 70404 >>,
       << 70413, 70414 >>, << 70417, 70418 >>, << 70441, 70441 >>,
       << 70449, 70449 >>, << 70452, 70452 >>, << 70458, 70458 >>,
       << 70469, 70470 >>, << 70473, 70474 >>, << 70478, 70479 >>,
       << 70481, 70486 >>, << 70488, 70492 >>, << 70500, 70501 >>,
       << 70509, 70511 >>, << 70517, 70655 >>, << 70748, 70748 >>,
       << 70754, 70783 >>, << 70856, 70863 >>, << 70874, 71039 >>,
       << 71094, 71095 >>, << 71134, 71167 >>, << 71237, 71247 >>,
       << 71258, 71263 >>, << 71277, 71295 >>, << 71354, 71359 >>,
       << 71370, 71423 >>, << 71451, 71452 >>, << 71468, 71471 >>,
       << 71495, 71679 >>, << 71740, 71839 >>, << 71923, 71934 >>,
       << 71943, 71944 >>, << 71946, 71947 >>, << 71956, 71956 >>,
       << 71959, 71959 >>, << 71990, 71990 >>, << 71993, 71994 >>,
       << 72007, 72015 >>, << 72026, 72095 >>, << 72104, 72105 >>,
       << 72152, 72153 >>, << 72165, 72191 >>, << 72264, 72271 >>,
       << 72355, 72367 >>, << 72441, 72703 >>, << 72713, 72713 >>,
       << 72759, 72759 >>, << 72774, 72783 >>, << 72813, 72815 >>,
       << 72848, 72849 >>, << 72872, 72872 >>, << 72887, 72959 >>,
       << 72967, 72967 >>, << 72970, 72970 >>, << 73015, 73017 >>,
       << 73019, 73019 >>, << 73022, 73022 >>, << 73032, 73039 >>,
       << 73050, 73055 >>, << 73062, 73062 >>, << 73065, 73065 >>,
       << 73103, 73103 >>, << 73106, 73106 >>, << 73113, 73119 >>,
       << 73130, 73439 >>, << 73465, 73647 >>, << 73649, 73663 >>,
       << 73714, 73726 >>, << 74650, 74751 >>, << 74863, 74863 >>,
       << 74869, 74879 >>, << 75076, 77711 >>, << 77811, 77823 >>,
       << 78895, 82943 >>, << 83527, 92159 >>, << 92729, 92735 >>,
       << 92767, 92767 >>, << 92778, 92781 >>, << 92863, 92863 >>,
       << 92874, 92879 >>, << 92910, 92911 >>, << 92918, 92927 >>,
       << 92998, 93007 >>, << 93018, 93018 >>, << 93026, 93026 >>,
       << 93048, 93052 >>, << 93072, 93759 >>, << 93851, 93951 >>,
       << 94027, 94030 >>, << 94088, 94094 >>, << 94112, 94175 >>,
       << 94181, 94191 >>, << 94194, 94207 >>, << 100344, 100351 >>,
       << 101590, 101631 >>, << 101641, 110575 >>, << 110580, 110580 >>,
       << 110588, 110588 >>, << 110591, 110591 >>, << 110883, 110927 >>,
       << 110931, 110947 >>, << 110952, 110959 >>, << 111356, 113663 >>,
       << 113771, 113775 >>, << 113789, 113791 >>, << 113801, 113807 >>,
       << 113818, 113819 >>, << 113824, 118527 >>, << 118574, 118575 >>,
       << 118599, 118607 >>, << 118724, 118783 >>, << 119030, 119039 >>,
       << 119079, 119080 >>, << 119155, 119162 >>, << 119275, 119295 >>,
       << 119366, 119519 >>, << 119540, 119551 >>, << 119639, 119647 >>,
       << 119673, 119807 >>, << 119893, 119893 >>, << 119965, 119965 >>,
       << 119968, 119969 >>, << 119971, 119972 >>, << 119975, 119976 >>,
       << 119981, 119981 >>, << 119994, 119994 >>, << 119996, 119996 >>,
       << 120004, 120004 >>, << 120070, 120070 >>, << 120075, 120076 >>,
       << 120085, 120085 >>, << 120093, 120093 >>, << 120122, 120122 >>,
       << 120127, 120127 >>, << 120133, 120133 >>, << 120135, 120137 >>,
       << 120145, 120145 >>, << 120486, 120487 >>, << 120780, 120781 >>,
       << 121484, 121498 >>, << 121504, 121504 >>, << 121520, 122623 >>,
       << 122655, 122879 >>, << 122887, 122887 >>, << 122905, 122906 >>,
       << 122914, 122914 >>, << 122917, 122917 >>, << 122923, 123135 >>,
       << 123181, 123183 >>, << 123198, 123199 >>, << 123210, 123213 >>,
       << 123216, 123535 >>, << 123567, 123583 >>, << 123642, 123646 >>,
       << 123648, 124895 >>, << 124903, 124903 >>, << 124908, 124908 >>,
       << 124911, 124911 >>, << 124927, 124927 >>, << 125125, 125126 >>,
       << 125143, 125183 >>, << 125260, 125263 >>, << 125274, 125277 >>,
       << 125280, 126064 >>, << 126133, 126208 >>, << 126270, 126463 >>,
       << 126468, 126468 >>, << 126496, 126496 >>, << 126499, 126499 >>,
       << 126501, 126502 >>, << 126504, 126504 >>, << 126515, 126515 >>,
       << 126520, 126520 >>, << 126522, 126522 >>, << 126524, 126529 >>,
       << 126531, 126534 >>, << 126536, 126536 >>, << 126538, 126538 >>,
       << 126540, 126540 >>, << 126544, 126544 >>, << 126547, 126547 >>,
       << 126549, 126550 >>, << 126552, 126552 >>, << 126554, 126554 >>,
       << 126556, 126556 >>, << 126558, 126558 >>, << 126560, 126560 >>,
       << 126563, 126563 >>, << 126565, 126566 >>, << 126571, 126571 >>,
       << 126579, 126579 >>, << 126584, 126584 >>, << 126589, 126589 >>,
       << 126591, 126591 >>, << 126602, 126602 >>, << 126620, 126624 >>,
       << 126628, 126628 >>, << 126634, 126634 >>, << 126652, 126703 >>,
       << 126706, 126975 >>, << 127020, 127023 >>, << 127124, 127135 >>,
       << 127151, 127152 >>, << 127168, 127168 >>, << 127184, 127184 >>,
       << 127222, 127231 >>, << 127406, 127461 >>, << 127491, 127503 >>,
       << 127548, 127551 >>, << 127561, 127567 >>, << 127570, 127583 >>,
       << 127590, 127743 >>, << 128728, 128732 >>, << 128749, 128751 >>,
       << 128765, 128767 >>, << 128884, 128895 >>, << 128985, 128991 >>,
       << 129004, 129007 >>, << 129009, 129023 >>, << 129036, 129039 >>,
       << 129096, 129103 >>, << 129114, 129119 >>, << 129160, 129167 >>,
       << 129198, 129199 >>, << 129202, 129279 >>, << 129620, 129631 >>,
       << 129646, 129647 >>, << 129653, 129655 >>, << 129661, 129663 >>,
       << 129671, 129679 >>, << 129709, 129711 >>, << 129723, 129727 >>,
       << 129734, 129743 >>, << 129754, 129759 >>, << 129768, 129775 >>,
       << 129783, 129791 >>, << 129939, 129939 >>, << 129995, 130031 >>,
       << 130042, 131071 >>, << 173792, 173823 >>, << 177977, 177983 >>,
       << 178206, 178207 >>, << 183970, 183983 >>, << 191457, 194559 >>,
       << 195102, 196607 >>, << 201547, 917759 >>, << 918000, 1114111 >> >>

\* is the code point written as an escape by repr?
Unprintable(c) ==
    IF c < 127 THEN c < 32 ELSE InRanges(c, UNPRINTABLE_RANGES)

\* one character inside repr of a str delimited by quote
ReprChar(c, quote) ==
    IF c = 92 THEN << 92, 92 >> (* "\\\\" *)
    ELSE IF c = quote THEN << 92, c >>
    ELSE IF c = 10 THEN << 92, 110 >> (* "\\n" *)
    ELSE IF c = 13 THEN << 92, 114 >> (* "\\r" *)
    ELSE IF c = 9 THEN << 92, 116 >> (* "\\t" *)
    ELSE IF ~Unprintable(c) THEN << c >>
    ELSE IF c < 256 THEN << 92, 120 >> (* "\\x" *) \o Hex(c, 2)
    ELSE IF c < 65536 THEN << 92, 117 >> (* "\\u" *) \o Hex(c, 4)
    ELSE << 92, 85 >> (* "\\U" *) \o Hex(c, 8)

\* repr(s) of a str: single quotes, unless s holds ' and no "
StrRepr(s) ==
    LET has(c) == \E i \in 1..Len(s) : s[i] = c
        quote == IF has(39) /\ ~has(34) THEN 34 ELSE 39
    IN << quote >> \o Flatten([i \in 1..Len(s) |-> ReprChar(s[i], quote)])
       \o << quote >>

\* repr(x)
RECURSIVE PyRepr(_)
PyRepr(x) ==
    CASE x.t = "null" -> << 78, 111, 110, 101 >> (* "None" *)
      [] x.t = "bool" -> IF x.v THEN << 84, 114, 117, 101 >> (* "True" *) ELSE << 70, 97, 108, 115, 101 >> (* "False" *)
      [] x.t = "num" -> IntToStr(x.v)
      [] x.t = "float" -> x.v
      [] x.t = "str" -> StrRepr(x.v)
      [] x.t = "list" ->
            << 91 >> (* "[" *) \o Join(<< 44, 32 >> (* ", " *), [i \in 1..Len(x.v) |-> PyRepr(x.v[i])]) \o << 93 >> (* "]" *)
      [] x.t = "dict" ->
            << 123 >> (* "{" *) \o Join(<< 44, 32 >> (* ", " *), [i \in 1..Len(x.v) |->
                                 StrRepr(x.v[i].key) \o << 58, 32 >> (* ": " *) \o PyRepr(x.v[i].val)])
            \o << 125 >> (* "}" *)

\* str(x), which an f-string applies to a value: a str is itself
PyStr(x) == IF x.t = "str" THEN x.v ELSE PyRepr(x)

(***************************************************************************)
(* History store                                                           *)
(*                                                                         *)
(* history.json is [kind, val]: kind "missing" (no such file), "directory" *)
(* (the path is a directory: reading and writing raise IsADirectoryError,  *)
(* an OSError), "undecodable" (bytes that are not UTF-8: read_text raises  *)
(* UnicodeDecodeError), "invalid" (text json.loads rejects with            *)
(* JSONDecodeError, the empty file included), "toodeep" (JSON nested so    *)
(* deep that json.loads raises RecursionError) or "json", with val the     *)
(* value the text denotes.  json.dumps and json.loads are inverse on the   *)
(* JSON values above, so the file is held as the value its text denotes.   *)
(***************************************************************************)

File(kind) == [kind |-> kind, val |-> JNull]

JsonFile(x) == [kind |-> "json", val |-> x]

EmptyHistory == JDict(<< >>)

\* the exceptions that escape load_history: only JSONDecodeError and IOError
\* are caught
LoadRaises(f) == f.kind \in {"undecodable", "toodeep"}

\* load_history() when it returns: {} when the file is absent, unreadable or
\* rejected by json.loads; otherwise whatever json.loads returns
load_history(f) == IF f.kind = "json" THEN f.val ELSE EmptyHistory

\* cutoff of save_history when the clock reads the day today
Cutoff(today) == StrftimeYmd(today - HISTORY_DAYS)

\* a variant that compares with > and so drops the entry dated at the cutoff
PrunedStrict(h, today) ==
    JDict(SelectSeq(h.v, LAMBDA e : StrGE(e.key, Cutoff(today))
                                    /\ e.key # Cutoff(today)))

\* the dict comprehension of save_history: date >= cutoff, on str
Pruned(h, today) ==
    JDict(SelectSeq(h.v, LAMBDA e : StrGE(e.key, Cutoff(today))))

\* write_text raises when the path is a directory
SaveRaises(f) == f.kind = "directory"

\* save_history(history) when the clock reads today: the new file
save_history(h, today) == JsonFile(Pruned(h, today))

\* is the value under the i-th key one get_recent_titles raises on?
BadValue(h, i) ==
    \/ ~Iterable(h.v[i].val)
    \/ \E j \in 1..Len(IterItems(h.v[i].val)) : IterItems(h.v[i].val)[j].t # "dict"

\* get_recent_titles raises AttributeError when history is no dict (no
\* .values()), TypeError when a value cannot be iterated, AttributeError when
\* an element is no dict (no .get)
TitlesRaises(h) ==
    h.t # "dict" \/ \E i \in 1..Len(h.v) : BadValue(h, i)

\* the class of the exception get_recent_titles raises: that of the first
\* value, in the order of the keys, it cannot handle
TitlesError(h) ==
    IF h.t # "dict" THEN "AttributeError"
    ELSE LET i == CHOOSE k \in 1..Len(h.v) :
                     BadValue(h, k) /\ \A m \in 1..(k - 1) : ~BadValue(h, m)
         IN IF ~Iterable(h.v[i].val) THEN "TypeError" ELSE "AttributeError"

\* get_recent_titles(history) for a history it does not raise on: the truthy
\* values of story.get("title", ""), whatever their type
get_recent_titles(h) ==
    LET titles == Flatten([i \in 1..Len(h.v) |->
                     [j \in 1..Len(IterItems(h.v[i].val)) |->
                         DictGet(IterItems(h.v[i].val)[j], TITLE_KEY, JStr(<< >>))]])
    IN SelectSeq(titles, Truthy)

\* [{"title": s.get("title", ""), "url": s.get("url", "")} for s in stories]
HistoryEntries(stories) ==
    JList([i \in 1..Len(stories) |->
        JDict(<< KV(TITLE_KEY, JStr(Get(stories[i], TITLE_KEY, << >>))),
                 KV(URL_KEY, JStr(Get(stories[i], URL_KEY, << >>))) >>)])

(***************************************************************************)
(* Digest fetcher                                                          *)
(***************************************************************************)

\* The fixed text of the prompt f-string (lines 68-134) around {today} and
\* {dedup_block}, and of the dedup_block f-string (lines 59-66) around
\* {titles_list}, line breaks included.

\* "Today is "
PROMPT_HEAD ==
    << 84, 111, 100, 97, 121, 32, 105, 115, 32 >>

\* ". Search the web thoroughly for ..." to "... move on to other topics.\n"
\* (lines 68-120 and the line break before {dedup_block})
PROMPT_BODY ==
    << 46, 32, 83, 101, 97, 114, 99, 104, 32, 116, 104, 101, 32, 119, 101, 98,
       32, 116, 104, 111, 114, 111, 117, 103, 104, 108, 121, 32, 102, 111,
       114, 32, 116, 104, 101, 32, 109, 111, 115, 116, 32, 105, 110, 116, 101,
       114, 101, 115, 116, 105, 110, 103, 32, 97, 110, 100, 32, 105, 109, 112,
       97, 99, 116, 102, 117, 108, 32, 10, 65, 73, 32, 110, 101, 119, 115, 32,
       102, 114, 111, 109, 32, 116, 104, 101, 32, 108, 97, 115, 116, 32, 50,
       52, 45, 52, 56, 32, 104, 111, 117, 114, 115, 46, 32, 67, 111, 118, 101,
       114, 32, 66, 79, 84, 72, 32, 109, 97, 106, 111, 114, 32, 105, 110, 100,
       117, 115, 116, 114, 121, 32, 110, 101, 119, 115, 32, 65, 78, 68, 32,
       104, 111, 119, 32, 108, 101, 97, 100, 105, 110, 103, 32, 116, 101, 99,
       104, 32, 99, 111, 109, 112, 97, 110, 105, 101, 115, 32, 10, 97, 114,
       101, 32, 97, 112, 112, 108, 121, 105, 110, 103, 32, 65, 73, 32, 105,
       110, 32, 112, 114, 97, 99, 116, 105, 99, 101, 46, 10, 10, 83, 101, 97,
       114, 99, 104, 32, 102, 111, 114, 32, 97, 116, 32, 108, 101, 97, 115,
       116, 32, 56, 45, 49, 48, 32, 100, 105, 102, 102, 101, 114, 101, 110,
       116, 32, 113, 117, 101, 114, 105, 101, 115, 32, 116, 111, 32, 103, 101,
       116, 32, 98, 114, 111, 97, 100, 32, 99, 111, 118, 101, 114, 97, 103,
       101, 46, 32, 73, 110, 99, 108, 117, 100, 101, 58, 10, 10, 73, 78, 68,
       85, 83, 84, 82, 89, 32, 78, 69, 87, 83, 32, 40, 115, 101, 97, 114, 99,
       104, 32, 102, 111, 114, 32, 116, 104, 101, 115, 101, 41, 58, 10, 45,
       32, 76, 97, 116, 101, 115, 116, 32, 65, 73, 32, 110, 101, 119, 115, 32,
       116, 111, 100, 97, 121, 10, 45, 32, 65, 73, 32, 98, 114, 101, 97, 107,
       116, 104, 114, 111, 117, 103, 104, 115, 32, 97, 110, 110, 111, 117,
       110, 99, 101, 109, 101, 110, 116, 115, 32, 116, 104, 105, 115, 32, 119,
       101, 101, 107, 10, 45, 32, 65, 73, 32, 116, 111, 111, 108, 115, 32, 97,
       110, 100, 32, 112, 114, 111, 100, 117, 99, 116, 32, 108, 97, 117, 110,
       99, 104, 101, 115, 10, 45, 32, 76, 76, 77, 32, 97, 110, 100, 32, 103,
       101, 110, 101, 114, 97, 116, 105, 118, 101, 32, 65, 73, 32, 117, 112,
       100, 97, 116, 101, 115, 10, 45, 32, 65, 73, 32, 115, 116, 97, 114, 116,
       117, 112, 32, 102, 117, 110, 100, 105, 110, 103, 32, 110, 101, 119,
       115, 10, 45, 32, 65, 73, 32, 114, 101, 103, 117, 108, 97, 116, 105,
       111, 110, 32, 112, 111, 108, 105, 99, 121, 32, 110, 101, 119, 115, 10,
       10, 84, 69, 67, 72, 32, 67, 79, 77, 80, 65, 78, 89, 32, 65, 73, 32, 66,
       76, 79, 71, 83, 32, 40, 115, 101, 97, 114, 99, 104, 32, 102, 111, 114,
       32, 114, 101, 99, 101, 110, 116, 32, 112, 111, 115, 116, 115, 32, 102,
       114, 111, 109, 32, 116, 104, 101, 115, 101, 32, 115, 111, 117, 114, 99,
       101, 115, 41, 58, 10, 45, 32, 83, 116, 114, 105, 112, 101, 32, 101,
       110, 103, 105, 110, 101, 101, 114, 105, 110, 103, 32, 98, 108, 111,
       103, 32, 65, 73, 10, 45, 32, 83, 112, 111, 116, 105, 102, 121, 32, 101,
       110, 103, 105, 110, 101, 101, 114, 105, 110, 103, 32, 98, 108, 111,
       103, 32, 65, 73, 32, 109, 97, 99, 104, 105, 110, 101, 32, 108, 101, 97,
       114, 110, 105, 110, 103, 10, 45, 32, 78, 101, 116, 102, 108, 105, 120,
       32, 116, 101, 99, 104, 32, 98, 108, 111, 103, 32, 65, 73, 10, 45, 32,
       65, 105, 114, 98, 110, 98, 32, 101, 110, 103, 105, 110, 101, 101, 114,
       105, 110, 103, 32, 65, 73, 10, 45, 32, 85, 98, 101, 114, 32, 101, 110,
       103, 105, 110, 101, 101, 114, 105, 110, 103, 32, 98, 108, 111, 103, 32,
       65, 73, 32, 77, 76, 10, 45, 32, 83, 104, 111, 112, 105, 102, 121, 32,
       101, 110, 103, 105, 110, 101, 101, 114, 105, 110, 103, 32, 65, 73, 10,
       45, 32, 76, 105, 110, 107, 101, 100, 73, 110, 32, 101, 110, 103, 105,
       110, 101, 101, 114, 105, 110, 103, 32, 98, 108, 111, 103, 32, 65, 73,
       10, 45, 32, 68, 117, 111, 108, 105, 110, 103, 111, 32, 65, 73, 32, 98,
       108, 111, 103, 10, 45, 32, 70, 105, 103, 109, 97, 32, 65, 73, 32, 98,
       108, 111, 103, 10, 45, 32, 78, 111, 116, 105, 111, 110, 32, 65, 73, 32,
       98, 108, 111, 103, 10, 45, 32, 71, 105, 116, 72, 117, 98, 32, 98, 108,
       111, 103, 32, 65, 73, 10, 45, 32, 86, 101, 114, 99, 101, 108, 32, 65,
       73, 32, 98, 108, 111, 103, 10, 45, 32, 68, 97, 116, 97, 100, 111, 103,
       32, 101, 110, 103, 105, 110, 101, 101, 114, 105, 110, 103, 32, 65, 73,
       10, 45, 32, 67, 108, 111, 117, 100, 102, 108, 97, 114, 101, 32, 98,
       108, 111, 103, 32, 65, 73, 10, 45, 32, 83, 108, 97, 99, 107, 32, 101,
       110, 103, 105, 110, 101, 101, 114, 105, 110, 103, 32, 98, 108, 111,
       103, 32, 65, 73, 10, 45, 32, 77, 111, 110, 122, 111, 32, 101, 110, 103,
       105, 110, 101, 101, 114, 105, 110, 103, 32, 98, 108, 111, 103, 32, 65,
       73, 10, 45, 32, 75, 108, 97, 114, 110, 97, 32, 65, 73, 32, 98, 108,
       111, 103, 10, 45, 32, 77, 101, 116, 97, 32, 101, 110, 103, 105, 110,
       101, 101, 114, 105, 110, 103, 32, 65, 73, 32, 98, 108, 111, 103, 10,
       45, 32, 71, 111, 111, 103, 108, 101, 32, 68, 101, 101, 112, 77, 105,
       110, 100, 32, 98, 108, 111, 103, 10, 45, 32, 79, 112, 101, 110, 65, 73,
       32, 98, 108, 111, 103, 10, 10, 80, 114, 105, 111, 114, 105, 116, 105,
       122, 101, 32, 115, 116, 111, 114, 105, 101, 115, 32, 102, 114, 111,
       109, 32, 116, 104, 101, 32, 99, 111, 109, 112, 97, 110, 121, 32, 98,
       108, 111, 103, 115, 32, 116, 104, 97, 116, 32, 100, 101, 115, 99, 114,
       105, 98, 101, 32, 82, 69, 65, 76, 32, 105, 109, 112, 108, 101, 109,
       101, 110, 116, 97, 116, 105, 111, 110, 115, 44, 32, 10, 108, 101, 115,
       115, 111, 110, 115, 32, 108, 101, 97, 114, 110, 101, 100, 44, 32, 97,
       114, 99, 104, 105, 116, 101, 99, 116, 117, 114, 101, 115, 44, 32, 111,
       114, 32, 99, 97, 115, 101, 32, 115, 116, 117, 100, 105, 101, 115, 32,
       8212, 32, 110, 111, 116, 32, 106, 117, 115, 116, 32, 109, 97, 114, 107,
       101, 116, 105, 110, 103, 32, 97, 110, 110, 111, 117, 110, 99, 101, 109,
       101, 110, 116, 115, 46, 10, 10, 65, 102, 116, 101, 114, 32, 103, 97,
       116, 104, 101, 114, 105, 110, 103, 32, 114, 101, 115, 117, 108, 116,
       115, 44, 32, 115, 101, 108, 101, 99, 116, 32, 116, 104, 101, 32, 84,
       79, 80, 32, 49, 53, 32, 109, 111, 115, 116, 32, 34, 99, 111, 111, 108,
       34, 32, 115, 116, 111, 114, 105, 101, 115, 46, 32, 82, 97, 110, 107,
       32, 98, 121, 58, 10, 49, 46, 32, 42, 42, 78, 111, 118, 101, 108, 116,
       121, 42, 42, 32, 8212, 32, 73, 115, 32, 116, 104, 105, 115, 32, 103,
       101, 110, 117, 105, 110, 101, 108, 121, 32, 110, 101, 119, 32, 111,
       114, 32, 115, 117, 114, 112, 114, 105, 115, 105, 110, 103, 63, 10, 50,
       46, 32, 42, 42, 73, 109, 112, 97, 99, 116, 42, 42, 32, 8212, 32, 87,
       105, 108, 108, 32, 116, 104, 105, 115, 32, 97, 102, 102, 101, 99, 116,
       32, 112, 114, 97, 99, 116, 105, 116, 105, 111, 110, 101, 114, 115, 44,
       32, 98, 117, 115, 105, 110, 101, 115, 115, 101, 115, 44, 32, 111, 114,
       32, 116, 104, 101, 32, 105, 110, 100, 117, 115, 116, 114, 121, 63, 10,
       51, 46, 32, 42, 42, 80, 114, 97, 99, 116, 105, 99, 97, 108, 32, 114,
       101, 108, 101, 118, 97, 110, 99, 101, 42, 42, 32, 8212, 32, 67, 97,
       110, 32, 115, 111, 109, 101, 111, 110, 101, 32, 97, 99, 116, 32, 111,
       110, 32, 111, 114, 32, 108, 101, 97, 114, 110, 32, 102, 114, 111, 109,
       32, 116, 104, 105, 115, 63, 10, 52, 46, 32, 42, 42, 66, 117, 122, 122,
       42, 42, 32, 8212, 32, 73, 115, 32, 116, 104, 101, 32, 99, 111, 109,
       109, 117, 110, 105, 116, 121, 32, 116, 97, 108, 107, 105, 110, 103, 32,
       97, 98, 111, 117, 116, 32, 105, 116, 63, 10, 10, 73, 77, 80, 79, 82,
       84, 65, 78, 84, 32, 82, 85, 76, 69, 83, 32, 70, 79, 82, 32, 68, 73, 86,
       69, 82, 83, 73, 84, 89, 58, 10, 45, 32, 78, 69, 86, 69, 82, 32, 105,
       110, 99, 108, 117, 100, 101, 32, 109, 111, 114, 101, 32, 116, 104, 97,
       110, 32, 50, 32, 115, 116, 111, 114, 105, 101, 115, 32, 97, 98, 111,
       117, 116, 32, 116, 104, 101, 32, 115, 97, 109, 101, 32, 101, 118, 101,
       110, 116, 44, 32, 99, 111, 110, 102, 101, 114, 101, 110, 99, 101, 44,
       32, 111, 114, 32, 115, 117, 109, 109, 105, 116, 46, 32, 67, 111, 110,
       115, 111, 108, 105, 100, 97, 116, 101, 32, 10, 32, 32, 114, 101, 108,
       97, 116, 101, 100, 32, 97, 110, 110, 111, 117, 110, 99, 101, 109, 101,
       110, 116, 115, 32, 102, 114, 111, 109, 32, 116, 104, 101, 32, 115, 97,
       109, 101, 32, 101, 118, 101, 110, 116, 32, 105, 110, 116, 111, 32, 97,
       32, 115, 105, 110, 103, 108, 101, 32, 115, 116, 111, 114, 121, 46, 10,
       45, 32, 78, 69, 86, 69, 82, 32, 105, 110, 99, 108, 117, 100, 101, 32,
       109, 111, 114, 101, 32, 116, 104, 97, 110, 32, 50, 32, 115, 116, 111,
       114, 105, 101, 115, 32, 97, 98, 111, 117, 116, 32, 116, 104, 101, 32,
       115, 97, 109, 101, 32, 99, 111, 109, 112, 97, 110, 121, 46, 32, 80,
       105, 99, 107, 32, 111, 110, 108, 121, 32, 116, 104, 101, 32, 109, 111,
       115, 116, 32, 105, 109, 112, 97, 99, 116, 102, 117, 108, 32, 111, 110,
       101, 46, 10, 45, 32, 77, 97, 120, 105, 109, 105, 122, 101, 32, 84, 79,
       80, 73, 67, 32, 100, 105, 118, 101, 114, 115, 105, 116, 121, 58, 32,
       115, 112, 114, 101, 97, 100, 32, 97, 99, 114, 111, 115, 115, 32, 109,
       111, 100, 101, 108, 32, 114, 101, 108, 101, 97, 115, 101, 115, 44, 32,
       99, 111, 109, 112, 97, 110, 121, 32, 117, 115, 101, 32, 99, 97, 115,
       101, 115, 44, 32, 114, 101, 115, 101, 97, 114, 99, 104, 44, 32, 10, 32,
       32, 114, 101, 103, 117, 108, 97, 116, 105, 111, 110, 44, 32, 105, 110,
       102, 114, 97, 115, 116, 114, 117, 99, 116, 117, 114, 101, 44, 32, 102,
       117, 110, 100, 105, 110, 103, 44, 32, 111, 112, 101, 110, 32, 115, 111,
       117, 114, 99, 101, 44, 32, 97, 110, 100, 32, 112, 114, 97, 99, 116,
       105, 99, 97, 108, 32, 97, 112, 112, 108, 105, 99, 97, 116, 105, 111,
       110, 115, 46, 10, 45, 32, 73, 102, 32, 97, 32, 109, 97, 106, 111, 114,
       32, 101, 118, 101, 110, 116, 32, 40, 108, 105, 107, 101, 32, 97, 32,
       115, 117, 109, 109, 105, 116, 32, 111, 114, 32, 99, 111, 110, 102, 101,
       114, 101, 110, 99, 101, 41, 32, 112, 114, 111, 100, 117, 99, 101, 100,
       32, 109, 97, 110, 121, 32, 97, 110, 110, 111, 117, 110, 99, 101, 109,
       101, 110, 116, 115, 44, 32, 112, 105, 99, 107, 32, 116, 104, 101, 32,
       10, 32, 32, 49, 45, 50, 32, 109, 111, 115, 116, 32, 105, 109, 112, 97,
       99, 116, 102, 117, 108, 32, 97, 110, 100, 32, 109, 111, 118, 101, 32,
       111, 110, 32, 116, 111, 32, 111, 116, 104, 101, 114, 32, 116, 111, 112,
       105, 99, 115, 46, 10 >>

\* "\nAim for a MIX: ..." to "... Do not invent or hallucinate stories."
\* (lines 121-134 after {dedup_block})
PROMPT_TAIL ==
    << 10, 65, 105, 109, 32, 102, 111, 114, 32, 97, 32, 77, 73, 88, 58, 32,
       114, 111, 117, 103, 104, 108, 121, 32, 56, 45, 57, 32, 105, 110, 100,
       117, 115, 116, 114, 121, 32, 110, 101, 119, 115, 32, 115, 116, 111,
       114, 105, 101, 115, 32, 97, 110, 100, 32, 54, 45, 55, 32, 99, 111, 109,
       112, 97, 110, 121, 32, 101, 110, 103, 105, 110, 101, 101, 114, 105,
       110, 103, 32, 98, 108, 111, 103, 32, 112, 111, 115, 116, 115, 46, 10,
       10, 70, 111, 114, 32, 101, 97, 99, 104, 32, 111, 102, 32, 116, 104,
       101, 32, 49, 53, 32, 115, 116, 111, 114, 105, 101, 115, 44, 32, 112,
       114, 111, 118, 105, 100, 101, 32, 69, 88, 65, 67, 84, 76, 89, 32, 116,
       104, 105, 115, 32, 102, 111, 114, 109, 97, 116, 32, 40, 116, 104, 105,
       115, 32, 119, 105, 108, 108, 32, 98, 101, 32, 112, 97, 114, 115, 101,
       100, 41, 58, 10, 10, 61, 61, 61, 83, 84, 79, 82, 89, 61, 61, 61, 10,
       84, 73, 84, 76, 69, 58, 32, 91, 72, 101, 97, 100, 108, 105, 110, 101,
       93, 10, 85, 82, 76, 58, 32, 91, 83, 111, 117, 114, 99, 101, 32, 85, 82,
       76, 93, 10, 67, 65, 84, 69, 71, 79, 82, 89, 58, 32, 91, 73, 110, 100,
       117, 115, 116, 114, 121, 32, 111, 114, 32, 67, 111, 109, 112, 97, 110,
       121, 93, 10, 83, 85, 77, 77, 65, 82, 89, 58, 32, 91, 50, 45, 51, 32,
       115, 101, 110, 116, 101, 110, 99, 101, 32, 115, 117, 109, 109, 97, 114,
       121, 32, 111, 102, 32, 119, 104, 97, 116, 32, 104, 97, 112, 112, 101,
       110, 101, 100, 93, 10, 87, 72, 89, 95, 73, 84, 95, 77, 65, 84, 84, 69,
       82, 83, 58, 32, 91, 49, 45, 50, 32, 115, 101, 110, 116, 101, 110, 99,
       101, 115, 32, 111, 110, 32, 119, 104, 121, 32, 97, 32, 112, 114, 97,
       99, 116, 105, 116, 105, 111, 110, 101, 114, 32, 115, 104, 111, 117,
       108, 100, 32, 99, 97, 114, 101, 93, 10, 61, 61, 61, 69, 78, 68, 61, 61,
       61, 10, 10, 66, 101, 32, 115, 112, 101, 99, 105, 102, 105, 99, 46, 32,
       85, 115, 101, 32, 114, 101, 97, 108, 32, 85, 82, 76, 115, 32, 102, 114,
       111, 109, 32, 121, 111, 117, 114, 32, 115, 101, 97, 114, 99, 104, 32,
       114, 101, 115, 117, 108, 116, 115, 46, 32, 68, 111, 32, 110, 111, 116,
       32, 105, 110, 118, 101, 110, 116, 32, 111, 114, 32, 104, 97, 108, 108,
       117, 99, 105, 110, 97, 116, 101, 32, 115, 116, 111, 114, 105, 101, 115,
       46 >>

\* "\nCRITICAL (dash) DO NOT REPEAT THESE STORIES. They were already covered
\* in previous days:\n"
DEDUP_HEAD ==
    << 10, 67, 82, 73, 84, 73, 67, 65, 76, 32, 8212, 32, 68, 79, 32, 78, 79,
       84, 32, 82, 69, 80, 69, 65, 84, 32, 84, 72, 69, 83, 69, 32, 83, 84, 79,
       82, 73, 69, 83, 46, 32, 84, 104, 101, 121, 32, 119, 101, 114, 101, 32,
       97, 108, 114, 101, 97, 100, 121, 32, 99, 111, 118, 101, 114, 101, 100,
       32, 105, 110, 32, 112, 114, 101, 118, 105, 111, 117, 115, 32, 100, 97,
       121, 115, 58, 10 >>

\* "\n\nIf a story is an UPDATE ..." to "... or event just reworded.\n"
DEDUP_TAIL ==
    << 10, 10, 73, 102, 32, 97, 32, 115, 116, 111, 114, 121, 32, 105, 115, 32,
       97, 110, 32, 85, 80, 68, 65, 84, 69, 32, 111, 114, 32, 83, 73, 71, 78,
       73, 70, 73, 67, 65, 78, 84, 32, 78, 69, 87, 32, 68, 69, 86, 69, 76, 79,
       80, 77, 69, 78, 84, 32, 111, 110, 32, 97, 32, 112, 114, 101, 118, 105,
       111, 117, 115, 32, 116, 111, 112, 105, 99, 44, 32, 121, 111, 117, 32,
       109, 97, 121, 32, 105, 110, 99, 108, 117, 100, 101, 32, 10, 105, 116,
       32, 98, 117, 116, 32, 121, 111, 117, 32, 77, 85, 83, 84, 32, 102, 114,
       97, 109, 101, 32, 105, 116, 32, 97, 115, 32, 110, 101, 119, 32, 105,
       110, 102, 111, 114, 109, 97, 116, 105, 111, 110, 32, 40, 101, 46, 103,
       46, 44, 32, 34, 85, 112, 100, 97, 116, 101, 58, 32, 46, 46, 46, 34, 32,
       111, 114, 32, 34, 78, 101, 119, 32, 100, 101, 118, 101, 108, 111, 112,
       109, 101, 110, 116, 58, 32, 46, 46, 46, 34, 41, 46, 32, 10, 68, 111,
       32, 78, 79, 84, 32, 105, 110, 99, 108, 117, 100, 101, 32, 116, 104,
       101, 32, 115, 97, 109, 101, 32, 97, 110, 110, 111, 117, 110, 99, 101,
       109, 101, 110, 116, 44, 32, 108, 97, 117, 110, 99, 104, 44, 32, 111,
       114, 32, 101, 118, 101, 110, 116, 32, 106, 117, 115, 116, 32, 114, 101,
       119, 111, 114, 100, 101, 100, 46, 10 >>

\* f"- {t}"
TitleItem(t) == << 45, 32 >> (* "- " *) \o PyStr(t)

\* a variant that joins the titles with ", " on one line
TitlesListCommas(recent) ==
    Join(<< 44, 32 >> (* ", " *), [i \in 1..Len(recent) |-> TitleItem(recent[i])])

\* "\n".join(f"- {t}" for t in recent_titles)
TitlesList(recent) ==
    Join(NL, [i \in 1..Len(recent) |-> TitleItem(recent[i])])

\* dedup_block: "" unless recent_titles is non-empty
DedupBlock(recent) ==
    IF recent # << >>
    THEN DEDUP_HEAD \o TitlesList(recent) \o DEDUP_TAIL
    ELSE << >>

\* the prompt of fetch_news_digest when the clock reads the day today
BuildPrompt(recent, today) ==
    PROMPT_HEAD \o StrftimeBdY(today) \o PROMPT_BODY \o DedupBlock(recent)
    \o PROMPT_TAIL

\* a variant that raises on 5xx only
RaisesOnServerError(status) == 500 <= status /\ status < 600

\* raise_for_status(): HTTPError on 4xx and 5xx
RaisesForStatus(status) == 400 <= status /\ status < 600

\* the keys fetch_news_digest reads in the answer
CONTENT_KEY == << 99, 111, 110, 116, 101, 110, 116 >> (* "content" *)
TYPE_KEY == << 116, 121, 112, 101 >> (* "type" *)
TEXT_KEY == << 116, 101, 120, 116 >> (* "text" *)

\* data.get("content", [])
Content(data) == DictGet(data, CONTENT_KEY, JList(<< >>))

\* block.get("type") == "text"
IsTextBlock(block) == DictGet(block, TYPE_KEY, JNull) = JStr(TEXT_KEY)

\* does the loop over the content raise on this block? It has no .get
\* (AttributeError), or it is a text block with no "text" (KeyError)
BadBlock(block) ==
    \/ block.t # "dict"
    \/ IsTextBlock(block) /\ \A i \in 1..Len(block.v) : block.v[i].key # TEXT_KEY

\* text_parts: block["text"] of the text blocks, in order
TextParts(data) ==
    LET textBlocks == SelectSeq(IterItems(Content(data)), IsTextBlock)
    IN [i \in 1..Len(textBlocks) |-> DictGet(textBlocks[i], TEXT_KEY, JNull)]

\* the class of the exception the answer data makes lines 155-159 raise, or
\* "none": data has no .get, the content cannot be iterated, the first
\* block the loop cannot handle, or a text that is no str in the join
ResponseError(data) ==
    IF data.t # "dict" THEN "AttributeError"
    ELSE IF ~Iterable(Content(data)) THEN "TypeError"
    ELSE LET blocks == IterItems(Content(data))
             bad == {i \in 1..Len(blocks) : BadBlock(blocks[i])}
             first == CHOOSE i \in bad : \A k \in bad : i <= k
         IN IF bad # {}
            THEN (IF blocks[first].t # "dict" THEN "AttributeError" ELSE "KeyError")
            ELSE IF \E i \in 1..Len(TextParts(data)) : TextParts(data)[i].t # "str"
            THEN "TypeError"
            ELSE "none"

\* "\n".join(text_parts), for an answer that raises nothing
ResponseText(data) ==
    Join(NL, [i \in 1..Len(TextParts(data)) |-> TextParts(data)[i].v])

(***************************************************************************)
(* Story parser                                                            *)
(***************************************************************************)

\* the inner loop over FIELDS with its break: the first matching field
\* sets story[field.lower()] = line[len(field) + 1:].strip()
RECURSIVE ParseField(_, _, _)
ParseField(story, line, k) ==
    IF k > Len(FIELDS) THEN story
    ELSE IF StartsWith(line, Prefix(FIELDS[k]))
         THEN Put(story, Lower(FIELDS[k]), Strip(Drop(line, Len(FIELDS[k]) + 1)))
         ELSE ParseField(story, line, k + 1)

\* for line in content.split("\n"): line = line.strip(); ...
RECURSIVE ParseLines(_, _)
ParseLines(story, lines) ==
    IF lines = << >> THEN story
    ELSE ParseLines(ParseField(story, Strip(Head(lines)), 1), Tail(lines))

\* a variant without the end-sentinel test
HasEndAlways(chunk) == TRUE

\* "===END===" in chunk
HasEnd(chunk) == Contains(chunk, END_SENTINEL)

\* the story dict built from one chunk that holds the end sentinel
ChunkStory(chunk) ==
    LET content == Strip(Split(chunk, END_SENTINEL)[1])
    IN ParseLines(EmptyDict, Split(content, NL))

\* if story.get("title"): a missing or empty title is falsy
HasTitle(story) == Get(story, TITLE_KEY, << >>) # << >>

\* the list of stories before truncation
RECURSIVE ParseChunks(_)
ParseChunks(chunks) ==
    IF chunks = << >> THEN << >>
    ELSE LET rest == ParseChunks(Tail(chunks))
             c == Head(chunks)
         IN IF ~HasEnd(c) THEN rest
            ELSE IF HasTitle(ChunkStory(c)) THEN << ChunkStory(c) >> \o rest
            ELSE rest

\* a variant that returns every story
TruncateNone(stories) == stories

\* return stories[:15]
Truncate(stories) == Take(stories, MAX_STORIES)

parse_stories(raw_text) == Truncate(ParseChunks(Split(raw_text, STORY_SENTINEL)))

(***************************************************************************)
(* Message builder and publisher                                           *)
(***************************************************************************)

INDUSTRY == << 105, 110, 100, 117, 115, 116, 114, 121 >> (* "industry" *)
COMPANY == << 99, 111, 109, 112, 97, 110, 121 >> (* "company" *)

\* category_emoji.get(cat, newspaper): U+1F4F0 newspaper, U+1F3E2 office
CategoryEmoji(cat) ==
    IF cat = INDUSTRY THEN << 128240 >> (* "\U0001f4f0" *)
    ELSE IF cat = COMPANY THEN << 127970 >> (* "\U0001f3e2" *)
    ELSE << 128240 >> (* "\U0001f4f0" *)

\* the text of the section of story number i
StoryText(story, i) ==
    LET cat == Lower(Get(story, CATEGORY_KEY, << >>))
        title == Get(story, TITLE_KEY, << 85, 110, 116, 105, 116, 108, 101, 100 >> (* "Untitled" *))
        url == Get(story, URL_KEY, << >>)
        summary == Get(story, SUMMARY_KEY, << 78, 111, 32, 115, 117, 109, 109, 97, 114, 121, 32, 97, 118, 97, 105, 108, 97, 98, 108, 101, 46 >> (* "No summary available." *))
        why == Get(story, WHY_KEY, << >>)
        title_text == IF url # << >>
                      THEN << 60 >> (* "<" *) \o url \o << 124 >> (* "|" *) \o title \o << 62 >> (* ">" *)
                      ELSE title
        text == CategoryEmoji(cat) \o << 32, 42, 35 >> (* " *#" *) \o IntToStr(i) \o << 32, 8212, 32 >> (* " \u2014 " *)
                \o title_text \o << 42, 10, 10 >> (* "*\n\n" *) \o summary
    IN IF why # << >>
       THEN text \o << 10, 10, 128161, 32, 42, 87, 104, 121, 32, 105, 116, 32, 109, 97, 116, 116, 101, 114, 115, 58, 42, 32 >> (* "\n\n\U0001f4a1 *Why it matters:* " *) \o why
       ELSE text

RECURSIVE StoryBlocks(_, _)
StoryBlocks(stories, i) ==
    IF i > Len(stories) THEN << >>
    ELSE << [type |-> "section", text |-> StoryText(stories[i], i)],
            [type |-> "divider", text |-> << >>] >> \o StoryBlocks(stories, i + 1)

\* "(robot) AI Daily Digest (dash) "
HEADER_TEXT ==
    << 129302, 32, 65, 73, 32, 68, 97, 105, 108, 121, 32, 68, 105, 103, 101, 115, 116, 32, 8212, 32 >> (* "\U0001f916 AI Daily Digest \u2014 " *)

\* "Here are today's *15 coolest AI stories* (dash) industry news + how top
\* tech companies are using AI (hand)"
INTRO_TEXT ==
    (* "Here are today's *15 coolest AI stories* \u2014 industry news + how top tech companies are using AI \U0001f447" *)
    << 72, 101, 114, 101, 32, 97, 114, 101, 32, 116, 111, 100, 97, 121, 39,
       115, 32, 42, 49, 53, 32, 99, 111, 111, 108, 101, 115, 116, 32, 65, 73,
       32, 115, 116, 111, 114, 105, 101, 115, 42, 32, 8212, 32, 105, 110, 100,
       117, 115, 116, 114, 121, 32, 110, 101, 119, 115, 32, 43, 32, 104, 111,
       119, 32, 116, 111, 112, 32, 116, 101, 99, 104, 32, 99, 111, 109, 112,
       97, 110, 105, 101, 115, 32, 97, 114, 101, 32, 117, 115, 105, 110, 103,
       32, 65, 73, 32, 128071 >>

\* "(tools) Powered by Claude AI | Industry news (newspaper) + Company
\* engineering blogs (office)"
FOOTER_TEXT ==
    (* "\U0001f6e0\ufe0f Powered by Claude AI | Industry news \U0001f4f0 + Company engineering blogs \U0001f3e2" *)
    << 128736, 65039, 32, 80, 111, 119, 101, 114, 101, 100, 32, 98, 121, 32,
       67, 108, 97, 117, 100, 101, 32, 65, 73, 32, 124, 32, 73, 110, 100, 117,
       115, 116, 114, 121, 32, 110, 101, 119, 115, 32, 128240, 32, 43, 32, 67,
       111, 109, 112, 97, 110, 121, 32, 101, 110, 103, 105, 110, 101, 101,
       114, 105, 110, 103, 32, 98, 108, 111, 103, 115, 32, 127970 >>

\* build_slack_message(stories) when the clock reads the day today: the
\* blocks of the payload, each with its type and its text
build_slack_message(stories, today) ==
    << [type |-> "header", text |-> HEADER_TEXT \o StrftimeLong(today)],
       [type |-> "section", text |-> INTRO_TEXT],
       [type |-> "divider", text |-> << >>] >>
    \o StoryBlocks(stories, 1)
    \o << [type |-> "context", text |-> FOOTER_TEXT] >>

\* "*AI Daily Digest*\n\n"
FALLBACK_HEAD == << 42, 65, 73, 32, 68, 97, 105, 108, 121, 32, 68, 105, 103, 101, 115, 116, 42, 10, 10 >> (* "*AI Daily Digest*\n\n" *)

\* a variant that posts the whole raw text
fallback_msg_whole(raw) ==
    << [type |-> "section", text |-> FALLBACK_HEAD \o raw] >>

\* the fallback payload of main: one section, heading plus raw_digest[:3000]
fallback_msg(raw) ==
    << [type |-> "section", text |-> FALLBACK_HEAD \o Take(raw, FALLBACK_CHARS)] >>

\* a variant that accepts every status below 400
PostRaisesOnError(status) == status >= 400

\* post_to_slack: does the response make it raise?
PostRaises(status) == status # HTTP_OK

\* f"Slack webhook failed ({response.status_code}): {response.text}"
PostError(status, body) ==
    << 83, 108, 97, 99, 107, 32, 119, 101, 98, 104, 111, 111, 107, 32, 102, 97, 105, 108, 101, 100, 32, 40 >> (* "Slack webhook failed (" *) \o IntToStr(status) \o << 41, 58, 32 >> (* "): " *) \o body

\* an exception that ends the run: its class and, for the RuntimeError of
\* post_to_slack, its message (the messages of the other exceptions are not
\* modelled)
Raised(type, msg) == [type |-> type, msg |-> msg]

NoError == Raised("none", << >>)

(***************************************************************************)
(* Inputs: the texts the model endpoint may return, described by their     *)
(* structure and rendered to characters                                    *)
(***************************************************************************)

\* how many days pass in all
MaxDays == 3

\* how many times midnight passes while one run is under way
MaxMidnights == 1

\* how many times the job is run
MaxRuns == 2

\* how many story segments a described text holds at most
MaxSegs == 2

\* how many well-formed segments the long texts hold at most
MaxValid == 17

\* how many characters past FALLBACK_CHARS the longest raw text runs
MaxExtra == 2

\* how many days before the day of the save the oldest history entry lies
MaxBack == 5

\* how many titles the history files of the prompt runs hold at most
MaxTitles == 2

\* the day of the first run (three days later the month changes)
FirstDay == ToOrdinal(2026, 9, 28)

\* A line is lead \o f"{field}:" \o value (field 0: no field prefix).  The
\* lead is blank, or text that does not begin with a field prefix.
Line(lead, field, value) == [lead |-> lead, field |-> field, value |-> value]

RenderLine(l) ==
    l.lead \o (IF l.field = 0 THEN << >> ELSE Prefix(FIELDS[l.field])) \o l.value

\* A segment is the text between two start sentinels: its lines, whether
\* the end sentinel follows them, and the lines after the end sentinel.
Seg(lines, end, after) == [lines |-> lines, end |-> end, after |-> after]

RenderLines(ls) == Join(NL, [i \in 1..Len(ls) |-> RenderLine(ls[i])])

RenderSeg(g) ==
    NL \o RenderLines(g.lines) \o NL
    \o (IF g.end THEN END_SENTINEL \o NL ELSE << >>)
    \o (IF g.after = << >> THEN << >> ELSE RenderLines(g.after) \o NL)

\* A text is a preamble, the segments that each follow a start sentinel,
\* and a run of filler characters ("x") at the very end.
Text(pre, segs, filler) == [pre |-> pre, segs |-> segs, filler |-> filler]

RECURSIVE RenderSegs(_)
RenderSegs(segs) ==
    IF segs = << >> THEN << >>
    ELSE STORY_SENTINEL \o RenderSeg(Head(segs)) \o RenderSegs(Tail(segs))

RenderText(t) ==
    RenderSeg(t.pre) \o RenderSegs(t.segs) \o [i \in 1..t.filler |-> 120]

SP == << 32 >> (* " " *)

\* "TITLE: " and the value v
TitleLine(v) == Line(<< >>, 1, SP \o v)

\* the field k with the value "v" and the digit k
OtherLine(k) == Line(<< >>, k, SP \o << 118, Digit(k) >>)

\* the optional fields of a segment, in template order
OtherLines(X) ==
    LET ks == SelectSeq(<< 2, 3, 4, 5 >>, LAMBDA k : k \in X)
    IN [i \in 1..Len(ks) |-> OtherLine(ks[i])]

\* TITLE plus the subset X of URL, CATEGORY, SUMMARY, WHY_IT_MATTERS
WellFormed(t, X) == Seg(<< TitleLine(t) >> \o OtherLines(X), TRUE, << >>)

WellFormedSegs == {WellFormed(<< 97 >> (* "a" *), X) : X \in SUBSET {2, 3, 4, 5}}

OddSegs ==
    { \* no end sentinel
      Seg(<< TitleLine(<< 98 >> (* "b" *)), OtherLine(2) >>, FALSE, << >>),
      \* end sentinel, no TITLE
      Seg(<< OtherLine(2), OtherLine(4) >>, TRUE, << >>),
      \* TITLE with an empty value
      Seg(<< Line(<< >>, 1, << 32, 32 >> (* "  " *)), OtherLine(2) >>, TRUE, << >>),
      \* TITLE only after the end sentinel
      Seg(<< OtherLine(2) >>, TRUE, << TitleLine(<< 99 >> (* "c" *)) >>),
      \* indented field lines and padded values
      Seg(<< Line(<< 32, 9 >> (* " \t" *), 1, << 32, 100, 32, 101, 32, 13 >> (* " d e \r" *)),
             Line(<< 32 >> (* " " *), 3, << 67, 111, 109, 112, 97, 110, 121 >> (* "Company" *)) >>,
          TRUE, << >>),
      \* lower-case field name, and a field name in mid-line
      Seg(<< Line(<< 116, 105, 116, 108, 101, 58, 32 >> (* "title: " *), 0, << 102 >> (* "f" *)),
             Line(<< 115, 101, 101, 32 >> (* "see " *), 1, << 32, 103 >> (* " g" *)) >>, TRUE, << >>),
      \* TITLE twice: the later line wins
      Seg(<< TitleLine(<< 104 >> (* "h" *)), OtherLine(5), TitleLine(<< 105 >> (* "i" *)) >>,
          TRUE, << >>),
      \* only free text
      Seg(<< Line(<< 110, 111, 116, 101 >> (* "note" *), 0, << >>) >>, FALSE, << >>) }

\* segments with the whitespace str.strip() removes besides blank and tab:
\* form feed, vertical tab, \x1c-\x1f, \x85, U+00A0, U+2003, U+2028, U+3000
SpaceSegs ==
    { \* a form feed before TITLE, a vertical tab and U+00A0 around the value
      Seg(<< Line(<< 12 >> (* "\x0c" *), 1, << 11, 160, 106, 160, 107, 28 >> (* "\x0b\xa0j\xa0k\x1c" *)), OtherLine(2) >>, TRUE, << >>),
      \* a TITLE whose value is nothing but such whitespace
      Seg(<< Line(<< >>, 1, << 12, 133, 8195 >> (* "\x0c\x85\u2003" *)), OtherLine(2) >>, TRUE, << >>),
      \* such whitespace before the first line and after the last
      Seg(<< Line(<< 12288, 31 >> (* "\u3000\x1f" *), 2, << 32, 117, 29 >> (* " u\x1d" *)),
             Line(<< 8232 >> (* "\u2028" *), 1, << 32, 109, 30, 11 >> (* " m\x1e\x0b" *)) >>, TRUE, << >>) }

SegKinds == WellFormedSegs \cup OddSegs \cup SpaceSegs

Preambles ==
    { Seg(<< >>, FALSE, << >>),
      Seg(<< Line(<< 72, 101, 114, 101, 58 >> (* "Here:" *), 0, << >>) >>, FALSE, << >>),
      Seg(<< TitleLine(<< 112 >> (* "p" *)) >>, TRUE, << >>) }

SeqsUpTo(S, n) == UNION {[1..k -> S] : k \in 0..n}

\* the kinds that are combined into longer texts
MixSegs ==
    OddSegs \cup {WellFormed(<< 97 >> (* "a" *), X) : X \in {{}, {2, 4}, {2, 3, 4, 5}}}

\* every kind of segment alone, and up to MaxSegs segments of the mixed kinds
SmallTexts ==
    {Text(p, << g >>, 0) : p \in Preambles, g \in SegKinds}
    \cup {Text(p, ss, 0) : p \in Preambles, ss \in SeqsUpTo(MixSegs, MaxSegs)}

\* the i-th lower-case letter
Letter(i) == << 96 + i >>

\* n well-formed segments titled by position, an odd one put before the
\* j-th when j > 0
ManySegs(n, j) ==
    LET good == [i \in 1..n |-> WellFormed(<< 116 >> (* "t" *) \o Letter(i), {2})]
        odd == Seg(<< OtherLine(2) >>, TRUE, << >>)
    IN IF j = 0 THEN good
       ELSE SubSeq(good, 1, j - 1) \o << odd >> \o SubSeq(good, j, n)

ManyTexts ==
    UNION { {Text(Seg(<< >>, FALSE, << >>), ManySegs(n, j), 0) : j \in {0, 1, n}} :
              n \in (MAX_STORIES - 2)..MaxValid }

ParseInputs == SmallTexts \cup ManyTexts

(***************************************************************************)
(* What a described text should parse to, read off the description (no     *)
(* search for sentinels or field names): used by the properties only       *)
(***************************************************************************)

IsBlank(s) == \A i \in 1..Len(s) : s[i] \in Whitespace

\* a described line sets a field iff the field prefix starts the line
SetsField(l) == l.field # 0 /\ IsBlank(l.lead)

RECURSIVE ExpectedDict(_, _)
ExpectedDict(story, ls) ==
    IF ls = << >> THEN story
    ELSE ExpectedDict(
            IF SetsField(Head(ls))
            THEN Put(story, Lower(FIELDS[Head(ls).field]), Strip(Head(ls).value))
            ELSE story,
            Tail(ls))

ExpectedStory(g) == ExpectedDict(EmptyDict, g.lines)

\* a segment counts iff it has the end sentinel and a non-empty TITLE before it
ValidSeg(g) == g.end /\ TITLE_KEY \in DOMAIN ExpectedStory(g)
                     /\ ExpectedStory(g)[TITLE_KEY] # << >>

AllSegs(t) == << t.pre >> \o t.segs

ValidSegs(t) == SelectSeq(AllSegs(t), ValidSeg)

ExpectedStories(t) == [i \in 1..Len(ValidSegs(t)) |-> ExpectedStory(ValidSegs(t)[i])]

(***************************************************************************)
(* The environment of a run                                                *)
(***************************************************************************)

NoText == Text(Seg(<< >>, FALSE, << >>), << >>, 0)

Here == Seg(<< Line(<< 72, 101, 114, 101, 58 >> (* "Here:" *), 0, << >>) >>, FALSE, << >>)

\* the texts the model endpoint answers with in a run
RunTexts ==
    { NoText,
      Text(Here, << >>, FALLBACK_CHARS + MaxExtra),
      Text(Here, << WellFormed(<< 97 >> (* "a" *), {2, 3}) >>, 0),
      Text(Here, << WellFormed(<< 98 >> (* "b" *), {}),
                    Seg(<< TitleLine(<< 99 >> (* "c" *)), OtherLine(2) >>, FALSE, << >>),
                    WellFormed(<< 100 >> (* "d" *), {2, 5}) >>, 0) }

\* the JSON body of a 200 answer with the text t: a tool record, then the
\* text
Body(t) ==
    JDict(<< KV(CONTENT_KEY,
                JList(<< JDict(<< KV(TYPE_KEY,
                                     JStr(<< 115, 101, 114, 118, 101, 114, 95, 116, 111, 111, 108, 95, 117, 115, 101 >> (* "server_tool_use" *))) >>),
                         JDict(<< KV(TYPE_KEY, JStr(TEXT_KEY)),
                                  KV(TEXT_KEY, JStr(RenderText(t))) >>) >>)) >>)

\* {"type": "error", "error": "overloaded"}: the body of an answer that
\* reports an error; it has no content, which reads as no text
ErrorBody ==
    JDict(<< KV(TYPE_KEY, JStr(<< 101, 114, 114, 111, 114 >> (* "error" *))),
             KV(<< 101, 114, 114, 111, 114 >> (* "error" *), JStr(<< 111, 118, 101, 114, 108, 111, 97, 100, 101, 100 >> (* "overloaded" *))) >>)

\* JSON bodies of another shape
OddBodies ==
    { \* {"content": [{"type": "text"}]}
      JDict(<< KV(CONTENT_KEY, JList(<< JDict(<< KV(TYPE_KEY, JStr(TEXT_KEY)) >>) >>)) >>),
      \* {"content": null}
      JDict(<< KV(CONTENT_KEY, JNull) >>),
      \* []
      JList(<< >>),
      \* {"content": ["x"]}
      JDict(<< KV(CONTENT_KEY, JList(<< JStr(<< 120 >> (* "x" *)) >>)) >>),
      \* {"content": [{"type": "text", "text": null}]}
      JDict(<< KV(CONTENT_KEY,
                  JList(<< JDict(<< KV(TYPE_KEY, JStr(TEXT_KEY)),
                                    KV(TEXT_KEY, JNull) >>) >>)) >>),
      ErrorBody }

\* the answers of the model endpoint: a transport error (status 0), an
\* HTTP error status, 200 with a body that is no JSON, 200 with the content
\* blocks of a text, or 200 with JSON of another shape
Responses ==
    { [kind |-> "transport", status |-> 0, garbled |-> FALSE, text |-> NoText,
       data |-> JNull] }
    \cup { [kind |-> "http", status |-> st, garbled |-> FALSE, text |-> NoText,
             data |-> ErrorBody] : st \in {404, 500} }
    \cup { [kind |-> "http", status |-> 200, garbled |-> TRUE, text |-> NoText,
             data |-> JNull] }
    \cup { [kind |-> "http", status |-> 200, garbled |-> FALSE, text |-> t,
             data |-> Body(t)] : t \in RunTexts }
    \cup { [kind |-> "http", status |-> 200, garbled |-> FALSE, text |-> NoText,
             data |-> d] : d \in OddBodies }

\* the answers of the chat webhook: a transport error (status 0) or an HTTP
\* answer
Replies ==
    { [kind |-> "transport", status |-> 0, body |-> << >>],
      [kind |-> "http", status |-> 200, body |-> << 111, 107 >> (* "ok" *)],
      [kind |-> "http", status |-> 201, body |-> << 111, 107 >> (* "ok" *)],
      [kind |-> "http", status |-> 500, body |-> << 98, 111, 111, 109 >> (* "boom" *)] }

\* {"title": title, "url": url}
Entry(title, url) == JDict(<< KV(TITLE_KEY, JStr(title)), KV(URL_KEY, JStr(url)) >>)

\* the key of the day and a list of stories
Item(day, stories) == KV(StrftimeYmd(day), JList(stories))

\* the history file before the first run on day: absent, damaged in the ways
\* the store distinguishes, JSON of another shape, or a record of the days
\* before (entries without a title or with a number for a title included,
\* and a key that is no date)
InitFiles(day) ==
    { File("missing"),
      File("directory"),
      File("undecodable"),
      File("invalid"),
      File("toodeep"),
      \* [1]
      JsonFile(JList(<< JNum(1) >>)),
      \* {"<day - 1>": 5}
      JsonFile(JDict(<< KV(StrftimeYmd(day - 1), JNum(5)) >>)),
      \* {"<day - 1>": {}}
      JsonFile(JDict(<< KV(StrftimeYmd(day - 1), JDict(<< >>)) >>)),
      \* {}
      JsonFile(EmptyHistory),
      JsonFile(JDict(
          << Item(day - HISTORY_DAYS, << Entry(<< 111, 108, 100 >> (* "old" *), << 117 >> (* "u" *)) >>),
             Item(day - 1, << Entry(<< 110, 101, 119 >> (* "new" *), << >>),
                              Entry(<< >>, << 117 >> (* "u" *)),
                              JDict(<< KV(URL_KEY, JStr(<< 119 >> (* "w" *))) >>),
                              JDict(<< KV(TITLE_KEY, JNum(7)) >>) >>) >>)),
      JsonFile(JDict(
          << KV(<< 108, 97, 116, 101, 115, 116 >> (* "latest" *), JList(<< Entry(<< 112, 105, 110 >> (* "pin" *), << 117 >> (* "u" *)) >>)),
             Item(day - HISTORY_DAYS - 1, << Entry(<< 103, 111, 110, 101 >> (* "gone" *), << 117 >> (* "u" *)) >>) >>)) }

(***************************************************************************)
(* State                                                                   *)
(***************************************************************************)

VARIABLES
    now,            \* the day the clock reads (datetime.now()), as an ordinal
    elapsed,        \* how many days passed since the beginning
    midnights,      \* how many of them passed during the run under way
    file,           \* history.json
    pc,             \* where the process is: idle before the first run, then
                    \* loaded, titled, fetched, parsed, recorded, saved,
                    \* built, and done (normal exit) or failed (an exception
                    \* escaped main)
    runs,           \* how many runs were started
    history,        \* main's history
    recent_titles,  \* main's recent_titles
    raw_digest,     \* main's raw_digest
    stories,        \* main's stories
    today_key,      \* main's today_key
    slack_message,  \* main's slack_message (the blocks)
    err,            \* the exception that ended the run
    desc,           \* the description of the text behind raw_digest
    fileAtStart,    \* history.json as it was when the run began
    requests,       \* the requests to the model endpoint in this run: the
                    \* prompt, the day it names and the status that came
                    \* back (0: no answer)
    posts,          \* the webhook posts of this run: blocks, status (0: no
                    \* answer), body
    writes,         \* how many times this run wrote history.json
    saveDay,        \* the day the clock read in save_history in this run
    savedFrom,      \* the history handed to save_history in this run
    branch,         \* none, fallback or full
    at              \* the step of main the run executed last

vars == << now, elapsed, midnights, file, pc, runs, history, recent_titles,
           raw_digest, stories, today_key, slack_message, err, desc,
           fileAtStart, requests, posts, writes, saveDay, savedFrom, branch, at >>

clock == << now, elapsed, midnights >>

Stopped == pc \in {"idle", "done", "failed"}

Init ==
    /\ now = FirstDay
    /\ elapsed = 0
    /\ midnights = 0
    /\ file \in InitFiles(FirstDay)
    /\ pc = "idle"
    /\ runs = 0
    /\ history = EmptyHistory
    /\ recent_titles = << >>
    /\ raw_digest = << >>
    /\ stories = << >>
    /\ today_key = << >>
    /\ slack_message = << >>
    /\ err = NoError
    /\ desc = NoText
    /\ fileAtStart = file
    /\ requests = << >>
    /\ posts = << >>
    /\ writes = 0
    /\ saveDay = 0
    /\ savedFrom = EmptyHistory
    /\ branch = "none"
    /\ at = "none"

(***************************************************************************)
(* Actions: the steps of main, in order, and the clock                     *)
(***************************************************************************)

\* midnight passes, between two runs or while a run is under way (the run
\* reads the clock at lines 53, 287, 36 and 188, each time afresh)
Tick ==
    /\ elapsed < MaxDays
    /\ Stopped \/ midnights < MaxMidnights
    /\ now' = now + 1
    /\ elapsed' = elapsed + 1
    /\ midnights' = IF Stopped THEN midnights ELSE midnights + 1
    /\ UNCHANGED << file, pc, runs, history, recent_titles, raw_digest, stories,
                    today_key, slack_message, err, desc, fileAtStart, requests,
                    posts, writes, saveDay, savedFrom, branch, at >>

\* a new process starts: history = load_history()
LoadHistory ==
    /\ Stopped
    /\ runs < MaxRuns
    /\ runs' = runs + 1
    /\ midnights' = 0
    /\ fileAtStart' = file
    /\ IF LoadRaises(file)
       THEN /\ pc' = "failed"
            /\ err' = Raised(IF file.kind = "undecodable"
                             THEN "UnicodeDecodeError" ELSE "RecursionError",
                             << >>)
            /\ history' = EmptyHistory
       ELSE /\ pc' = "loaded"
            /\ err' = NoError
            /\ history' = load_history(file)
    /\ recent_titles' = << >>
    /\ raw_digest' = << >>
    /\ stories' = << >>
    /\ today_key' = << >>
    /\ slack_message' = << >>
    /\ desc' = NoText
    /\ requests' = << >>
    /\ posts' = << >>
    /\ writes' = 0
    /\ saveDay' = 0
    /\ savedFrom' = EmptyHistory
    /\ branch' = "none"
    /\ at' = "load"
    /\ UNCHANGED << now, elapsed, file >>

\* recent_titles = get_recent_titles(history)
GetRecentTitles ==
    /\ pc = "loaded"
    /\ at' = "titles"
    /\ IF TitlesRaises(history)
       THEN /\ pc' = "failed"
            /\ err' = Raised(TitlesError(history), << >>)
            /\ UNCHANGED recent_titles
       ELSE /\ pc' = "titled"
            /\ recent_titles' = get_recent_titles(history)
            /\ UNCHANGED err
    /\ UNCHANGED << clock, file, runs, history, raw_digest, stories, today_key,
                    slack_message, desc, fileAtStart, requests, posts, writes,
                    saveDay, savedFrom, branch >>

\* raw_digest = fetch_news_digest(recent_titles)
FetchNewsDigest ==
    /\ pc = "titled"
    /\ at' = "fetch"
    /\ \E r \in Responses :
        /\ requests' = Append(requests, [prompt |-> BuildPrompt(recent_titles, now),
                                         day |-> now,
                                         status |-> r.status])
        /\ IF r.kind = "transport"
           THEN /\ pc' = "failed"
                /\ err' = Raised("ConnectionError", << >>)
                /\ UNCHANGED << raw_digest, desc >>
           ELSE IF RaisesForStatus(r.status)
           THEN /\ pc' = "failed"
                /\ err' = Raised("HTTPError", << >>)
                /\ UNCHANGED << raw_digest, desc >>
           ELSE IF r.garbled
           THEN /\ pc' = "failed"
                /\ err' = Raised("JSONDecodeError", << >>)
                /\ UNCHANGED << raw_digest, desc >>
           ELSE IF ResponseError(r.data) # "none"
           THEN /\ pc' = "failed"
                /\ err' = Raised(ResponseError(r.data), << >>)
                /\ UNCHANGED << raw_digest, desc >>
           ELSE /\ pc' = "fetched"
                /\ raw_digest' = ResponseText(r.data)
                /\ desc' = r.text
                /\ UNCHANGED err
    /\ UNCHANGED << clock, file, runs, history, recent_titles, stories, today_key,
                    slack_message, fileAtStart, posts, writes, saveDay,
                    savedFrom, branch >>

\* stories = parse_stories(raw_digest)
ParseStories ==
    /\ pc = "fetched"
    /\ at' = "parse"
    /\ stories' = parse_stories(raw_digest)
    /\ pc' = "parsed"
    /\ UNCHANGED << clock, file, runs, history, recent_titles, raw_digest,
                    today_key, slack_message, err, desc, fileAtStart, requests,
                    posts, writes, saveDay, savedFrom, branch >>

\* post_to_slack(message), which ends the run either way
Post(message) ==
    \E r \in Replies :
       /\ posts' = Append(posts, [message |-> message, status |-> r.status,
                                  body |-> r.body])
       /\ IF r.kind = "transport"
          THEN pc' = "failed" /\ err' = Raised("ConnectionError", << >>)
          ELSE IF PostRaises(r.status)
          THEN pc' = "failed" /\ err' = Raised("RuntimeError", PostError(r.status, r.body))
          ELSE pc' = "done" /\ UNCHANGED err

\* if not stories: post_to_slack(fallback_msg); return
PostFallback ==
    /\ pc = "parsed"
    /\ stories = << >>
    /\ branch' = "fallback"
    /\ at' = "fallback"
    /\ Post(fallback_msg(raw_digest))
    /\ UNCHANGED << clock, file, runs, history, recent_titles, raw_digest, stories,
                    today_key, slack_message, desc, fileAtStart, requests,
                    writes, saveDay, savedFrom >>

\* today_key = datetime.now().strftime("%Y-%m-%d"); history[today_key] = [...]
RecordToday ==
    /\ pc = "parsed"
    /\ stories # << >>
    /\ branch' = "full"
    /\ at' = "record"
    /\ today_key' = StrftimeYmd(now)
    /\ history' = SetItem(history, today_key', HistoryEntries(stories))
    /\ pc' = "recorded"
    /\ UNCHANGED << clock, file, runs, recent_titles, raw_digest, stories,
                    slack_message, err, desc, fileAtStart, requests, posts,
                    writes, saveDay, savedFrom >>

\* save_history(history), which reads the clock for the cutoff
SaveHistory ==
    /\ pc = "recorded"
    /\ at' = "save"
    /\ saveDay' = now
    /\ savedFrom' = history
    /\ IF SaveRaises(file)
       THEN /\ pc' = "failed"
            /\ err' = Raised("IsADirectoryError", << >>)
            /\ UNCHANGED << file, writes >>
       ELSE /\ pc' = "saved"
            /\ file' = save_history(history, now)
            /\ writes' = writes + 1
            /\ UNCHANGED err
    /\ UNCHANGED << clock, runs, history, recent_titles, raw_digest, stories,
                    today_key, slack_message, desc, fileAtStart, requests,
                    posts, branch >>

\* slack_message = build_slack_message(stories)
BuildSlackMessage ==
    /\ pc = "saved"
    /\ at' = "build"
    /\ slack_message' = build_slack_message(stories, now)
    /\ pc' = "built"
    /\ UNCHANGED << clock, file, runs, history, recent_titles, raw_digest, stories,
                    today_key, err, desc, fileAtStart, requests, posts, writes,
                    saveDay, savedFrom, branch >>

\* post_to_slack(slack_message)
PostToSlack ==
    /\ pc = "built"
    /\ at' = "post"
    /\ Post(slack_message)
    /\ UNCHANGED << clock, file, runs, history, recent_titles, raw_digest, stories,
                    today_key, slack_message, desc, fileAtStart, requests,
                    writes, saveDay, savedFrom, branch >>

Next ==
    \/ Tick
    \/ LoadHistory
    \/ GetRecentTitles
    \/ FetchNewsDigest
    \/ ParseStories
    \/ PostFallback
    \/ RecordToday
    \/ SaveHistory
    \/ BuildSlackMessage
    \/ PostToSlack

Spec == Init /\ [][Next]_vars

(***************************************************************************)
(* The parser alone, on every described text                               *)
(***************************************************************************)

InitParse ==
    /\ now = FirstDay
    /\ elapsed = 0
    /\ midnights = 0
    /\ file = File("missing")
    /\ pc = "fetched"
    /\ runs = 1
    /\ history = EmptyHistory
    /\ recent_titles = << >>
    /\ desc \in ParseInputs
    /\ raw_digest = RenderText(desc)
    /\ stories = << >>
    /\ today_key = << >>
    /\ slack_message = << >>
    /\ err = NoError
    /\ fileAtStart = file
    /\ requests = << [prompt |-> BuildPrompt(<< >>, now), day |-> now,
                      status |-> 200] >>
    /\ posts = << >>
    /\ writes = 0
    /\ saveDay = 0
    /\ savedFrom = EmptyHistory
    /\ branch = "none"
    /\ at = "fetch"

NextParse == ParseStories

SpecParse == InitParse /\ [][NextParse]_vars

(***************************************************************************)
(* The save alone, on every record of the days around a change of month,   *)
(* of year, and a leap day, midnight passing at any point                  *)
(***************************************************************************)

SaveDays == {ToOrdinal(2026, 10, 1), ToOrdinal(2027, 1, 2), ToOrdinal(2028, 3, 1)}

\* the days of S in ascending order
RECURSIVE Ascending(_)
Ascending(S) ==
    IF S = {} THEN << >>
    ELSE LET least == CHOOSE x \in S : \A y \in S : x <= y
         IN << least >> \o Ascending(S \ {least})

\* a record with one entry for each day of S, after a key that is no date
\* when pinned
RecordOf(S, pinned) ==
    JsonFile(JDict(
        (IF pinned THEN << KV(<< 108, 97, 116, 101, 115, 116 >> (* "latest" *), JList(<< Entry(<< 112, 105, 110 >> (* "pin" *), << 117 >> (* "u" *)) >>)) >>
         ELSE << >>)
        \o [i \in 1..Cardinality(S) |->
              Item(Ascending(S)[i], << Entry(<< 115 >> (* "s" *) \o Letter(i), << 117 >> (* "u" *)) >>)]))

InitSave ==
    /\ now \in SaveDays
    /\ elapsed = 0
    /\ midnights = 0
    /\ \E S \in SUBSET ((now - MaxBack)..(now + 1)) :
          \E pinned \in BOOLEAN : file = RecordOf(S, pinned)
    /\ pc = "parsed"
    /\ runs = 1
    /\ history = load_history(file)
    /\ recent_titles = get_recent_titles(history)
    /\ desc = Text(Here, << WellFormed(<< 97 >> (* "a" *), {2}) >>, 0)
    /\ raw_digest = RenderText(desc)
    /\ stories = parse_stories(raw_digest)
    /\ today_key = << >>
    /\ slack_message = << >>
    /\ err = NoError
    /\ fileAtStart = file
    /\ requests = << [prompt |-> BuildPrompt(recent_titles, now), day |-> now,
                      status |-> 200] >>
    /\ posts = << >>
    /\ writes = 0
    /\ saveDay = 0
    /\ savedFrom = EmptyHistory
    /\ branch = "none"
    /\ at = "parse"

NextSave ==
    \/ Tick
    \/ RecordToday
    \/ SaveHistory

SpecSave == InitSave /\ [][NextSave]_vars

(***************************************************************************)
(* The prompt alone: load, titles and fetch on history files that hold     *)
(* every list of up to MaxTitles titles                                    *)
(***************************************************************************)

\* titles as history.json may hold them: text, text with ", " and "- " in
\* it, an int, a float, and a list holding a zero-width space
PromptTitles ==
    { JStr(<< 97 >> (* "a" *)), JStr(<< 98, 32, 99 >> (* "b c" *)), JStr(<< 45, 32, 120, 44, 32, 121 >> (* "- x, y" *)), JNum(7), JFloat(<< 49, 46, 53 >> (* "1.5" *)),
      JList(<< JStr(<< 8203 >> (* "\u200b" *)) >>) }

\* {"title": t, "url": "u"}
TitledEntry(t) == JDict(<< KV(TITLE_KEY, t), KV(URL_KEY, JStr(<< 117 >> (* "u" *))) >>)

\* a record that holds the titles ts: the first under the day before
\* yesterday, the others under yesterday
TitlesFile(ts, day) ==
    JsonFile(JDict(
        IF ts = << >> THEN << >>
        ELSE << Item(day - 2, << TitledEntry(Head(ts)) >>),
                Item(day - 1, [i \in 1..(Len(ts) - 1) |-> TitledEntry(ts[i + 1])]) >>))

PromptFiles(day) ==
    { File("missing") }
    \cup { TitlesFile(ts, day) : ts \in SeqsUpTo(PromptTitles, MaxTitles) }

InitPrompt ==
    /\ now = FirstDay
    /\ elapsed = 0
    /\ midnights = 0
    /\ file \in PromptFiles(FirstDay)
    /\ pc = "idle"
    /\ runs = 0
    /\ history = EmptyHistory
    /\ recent_titles = << >>
    /\ raw_digest = << >>
    /\ stories = << >>
    /\ today_key = << >>
    /\ slack_message = << >>
    /\ err = NoError
    /\ desc = NoText
    /\ fileAtStart = file
    /\ requests = << >>
    /\ posts = << >>
    /\ writes = 0
    /\ saveDay = 0
    /\ savedFrom = EmptyHistory
    /\ branch = "none"
    /\ at = "none"

NextPrompt ==
    \/ LoadHistory
    \/ GetRecentTitles
    \/ FetchNewsDigest

SpecPrompt == InitPrompt /\ [][NextPrompt]_vars

(***************************************************************************)
(* Properties                                                              *)
(***************************************************************************)

\* the keys of a JSON object
Keys(d) == {d.v[i].key : i \in 1..Len(d.v)}

Ended == pc \in {"done", "failed"}

\* the days a date key can name when save_history reads the day saveDay
KeyDays == (saveDay - HISTORY_DAYS - MaxDays - MaxBack - 2)..(saveDay + 1)

\* the date keys of the days D
DateKeys(D) == {StrftimeYmd(d) : d \in D}

\* is x a history record: an object whose values are lists of objects with a
\* text title and a text url?
IsRecord(x) ==
    /\ x.t = "dict"
    /\ \A i \in 1..Len(x.v) :
          /\ x.v[i].val.t = "list"
          /\ \A j \in 1..Len(x.v[i].val.v) :
                LET e == x.v[i].val.v[j]
                IN /\ e.t = "dict"
                   /\ Keys(e) = {TITLE_KEY, URL_KEY}
                   /\ \A k \in 1..Len(e.v) : e.v[k].val.t = "str"

\* C1: the history file is written only by a run that takes the full branch
\* and ends normally; a run that ends with an error leaves the file as it
\* was when the run began.
C1_HistoryWrittenOnlyOnSuccess ==
    /\ (Ended /\ writes > 0) => (pc = "done" /\ branch = "full")
    /\ (pc = "failed") => (file = fileAtStart)

\* C2: when no story is parsed the run posts exactly one message, a single
\* section whose text is the heading followed by the first FALLBACK_CHARS
\* characters of the raw text, then ends, and never writes the history file.
C2_FallbackPost ==
    /\ (at \in {"record", "save", "build", "post"}) => stories # << >>
    /\ (at = "fallback") =>
          /\ stories = << >>
          /\ Ended
          /\ Len(posts) = 1
          /\ Len(posts[1].message) = 1
          /\ posts[1].message[1].type = "section"
          /\ posts[1].message[1].text =
                << 42, 65, 73, 32, 68, 97, 105, 108, 121, 32, 68, 105, 103, 101, 115, 116, 42, 10, 10 >> (* "*AI Daily Digest*\n\n" *)
                \o [i \in 1..MinOf(Len(raw_digest), FALLBACK_CHARS) |-> raw_digest[i]]
          /\ writes = 0
          /\ file = fileAtStart

C2_Witness ==
    /\ at = "fallback"
    /\ pc = "done"
    /\ Len(raw_digest) > FALLBACK_CHARS
    /\ Len(posts[1].message[1].text) = FALLBACK_CHARS + Len(<< 42, 65, 73, 32, 68, 97, 105, 108, 121, 32, 68, 105, 103, 101, 115, 116, 42, 10, 10 >> (* "*AI Daily Digest*\n\n" *))
    /\ fileAtStart.kind = "json"
    /\ IsRecord(fileAtStart.val)
    /\ fileAtStart.val.v # << >>

\* C3: after save_history the date keys in the file are exactly the date keys
\* of the record handed to it that name the day HISTORY_DAYS before the day
\* of the save or a later day, with their entries and in their order; the
\* entry dated at the cutoff is kept, and a load of the file returns no older
\* entry.
C3_SavePrunes ==
    (writes > 0) =>
        /\ file.kind = "json"
        /\ file.val.t = "dict"
        /\ Keys(file.val) \cap DateKeys(KeyDays) =
              Keys(savedFrom)
              \cap DateKeys({k \in KeyDays : k >= saveDay - HISTORY_DAYS})
        /\ file.val.v = SelectSeq(savedFrom.v, LAMBDA e : e.key \in Keys(file.val))
        /\ ~LoadRaises(file)
        /\ Keys(load_history(file))
              \cap DateKeys({k \in KeyDays : k < saveDay - HISTORY_DAYS})
              = {}

C3_Witness ==
    /\ writes > 0
    /\ Civil(saveDay).d < HISTORY_DAYS
    /\ StrftimeYmd(saveDay - HISTORY_DAYS) \in Keys(savedFrom)
    /\ StrftimeYmd(saveDay - HISTORY_DAYS) \in Keys(file.val)
    /\ \E d \in KeyDays : /\ d < saveDay - HISTORY_DAYS
                          /\ StrftimeYmd(d) \in Keys(savedFrom)
                          /\ StrftimeYmd(d) \notin Keys(file.val)

\* C4: when the history file is missing, empty or holds anything but a
\* history record, load_history does not raise and returns the empty record,
\* and the run goes on past get_recent_titles with no recent titles.
C4_LoadNeverFails ==
    (runs > 0 /\ (fileAtStart.kind # "json" \/ ~IsRecord(fileAtStart.val))) =>
        /\ ~(pc = "failed" /\ at \in {"load", "titles"})
        /\ (pc = "loaded") => (history = EmptyHistory)
        /\ (pc = "titled") => (recent_titles = << >>)

\* C5: a post succeeds only on status 200; on any other status the run ends
\* with an error whose message holds the status and the body, with no second
\* post; a run that reached a post ends normally iff that post returned 200
\* (a post that got no answer has no status, 0 here, and ends the run with
\* the error of the transport).
C5_PostOnly200 ==
    /\ Len(posts) <= 1
    /\ (pc = "done") => (at \in {"fallback", "post"})
    /\ (at \in {"fallback", "post"}) =>
          /\ Ended
          /\ Len(posts) = 1
          /\ (pc = "done") <=> (posts[1].status = 200)
          /\ (posts[1].status = 0) => (pc = "failed" /\ err.type = "ConnectionError")
          /\ (posts[1].status \notin {0, 200}) =>
                /\ pc = "failed"
                /\ err.type = "RuntimeError"
                /\ Contains(err.msg, IntToStr(posts[1].status))
                /\ Contains(err.msg, posts[1].body)
                /\ err.msg = << 83, 108, 97, 99, 107, 32, 119, 101, 98, 104, 111, 111, 107, 32, 102, 97, 105, 108, 101, 100, 32, 40 >> (* "Slack webhook failed (" *) \o IntToStr(posts[1].status)
                             \o << 41, 58, 32 >> (* "): " *) \o posts[1].body

C5_Witness ==
    /\ at = "post"
    /\ pc = "failed"
    /\ posts[1].status = 500
    /\ posts[1].body = << 98, 111, 111, 109 >> (* "boom" *)

\* C6: when the model request gets no answer or an HTTP error status, the
\* run ends there: one request, no story parsed, nothing posted, history file
\* untouched (and so does a run whose fetch fails on the body of a 200
\* answer); and no run sends more than one model request or more than one
\* webhook post.
C6_FetchFailureIsTerminal ==
    /\ Len(requests) <= 1
    /\ Len(posts) <= 1
    /\ (pc = "failed" /\ at = "fetch") =>
          /\ Len(requests) = 1
          /\ stories = << >>
          /\ posts = << >>
          /\ writes = 0
          /\ file = fileAtStart
    /\ (Len(requests) = 1 /\ (requests[1].status = 0 \/ requests[1].status >= 400)) =>
          /\ pc = "failed"
          /\ at = "fetch"
          /\ stories = << >>
          /\ posts = << >>
          /\ writes = 0
          /\ file = fileAtStart

C6_Witness ==
    /\ pc = "failed"
    /\ at = "fetch"
    /\ requests[1].status = 404
    /\ fileAtStart.kind = "json"
    /\ IsRecord(fileAtStart.val)
    /\ fileAtStart.val.v # << >>

\* C7: the parser returns, in order, one story for every segment that holds
\* the end sentinel and a non-empty TITLE before it, with exactly the fields
\* the segment sets, and nothing for any other segment (texts of at most
\* MAX_STORIES such segments; a segment is a piece of the split on the start
\* sentinel, the preamble included).
C7_SegmentIncludedIffEndAndTitle ==
    (pc = "parsed" /\ Len(ValidSegs(desc)) <= MAX_STORIES) =>
        /\ Len(stories) = Len(ValidSegs(desc))
        /\ \A i \in 1..Len(stories) :
              /\ DOMAIN stories[i] = DOMAIN ExpectedStory(ValidSegs(desc)[i])
              /\ \A k \in DOMAIN stories[i] :
                    stories[i][k] = ExpectedStory(ValidSegs(desc)[i])[k]

C7_Witness ==
    /\ pc = "parsed"
    /\ Len(desc.segs) = 2
    /\ ~desc.segs[1].end
    /\ desc.segs[2] = WellFormed(<< 97 >> (* "a" *), {2, 4})
    /\ desc.pre.lines = << >>
    /\ Len(stories) = 1
    /\ DOMAIN stories[1] = {<< 116, 105, 116, 108, 101 >> (* "title" *), << 117, 114, 108 >> (* "url" *), << 115, 117, 109, 109, 97, 114, 121 >> (* "summary" *)}
    /\ stories[1][<< 116, 105, 116, 108, 101 >> (* "title" *)] = << 97 >> (* "a" *)
    /\ stories[1][<< 117, 114, 108 >> (* "url" *)] = << 118, 50 >> (* "v2" *)
    /\ stories[1][<< 115, 117, 109, 109, 97, 114, 121 >> (* "summary" *)] = << 118, 52 >> (* "v4" *)

\* C8: the parser returns the first min(n, MAX_STORIES) valid stories in
\* their order in the text, n being the number of valid segments.
C8_First15InOrder ==
    (pc = "parsed") =>
        /\ Len(stories) = MinOf(Len(ValidSegs(desc)), MAX_STORIES)
        /\ \A i \in 1..Len(stories) : stories[i] = ExpectedStories(desc)[i]

C8_Witness ==
    /\ pc = "parsed"
    /\ Len(ValidSegs(desc)) = MAX_STORIES + 2
    /\ Len(stories) = MAX_STORIES
    /\ stories[MAX_STORIES][<< 116, 105, 116, 108, 101 >> (* "title" *)] = << 116 >> (* "t" *) \o Letter(MAX_STORIES)

\* the heading line of the dedup block
DedupHeading ==
    (* "CRITICAL \u2014 DO NOT REPEAT THESE STORIES. They were already covered in previous days:" *)
    << 67, 82, 73, 84, 73, 67, 65, 76, 32, 8212, 32, 68, 79, 32, 78, 79, 84,
       32, 82, 69, 80, 69, 65, 84, 32, 84, 72, 69, 83, 69, 32, 83, 84, 79, 82,
       73, 69, 83, 46, 32, 84, 104, 101, 121, 32, 119, 101, 114, 101, 32, 97,
       108, 114, 101, 97, 100, 121, 32, 99, 111, 118, 101, 114, 101, 100, 32,
       105, 110, 32, 112, 114, 101, 118, 105, 111, 117, 115, 32, 100, 97, 121,
       115, 58 >>

\* the first words of the text that closes the dedup block
DedupClosing ==
    (* "If a story is an UPDATE or SIGNIFICANT NEW DEVELOPMENT" *)
    << 73, 102, 32, 97, 32, 115, 116, 111, 114, 121, 32, 105, 115, 32, 97,
       110, 32, 85, 80, 68, 65, 84, 69, 32, 111, 114, 32, 83, 73, 71, 78, 73,
       70, 73, 67, 65, 78, 84, 32, 78, 69, 87, 32, 68, 69, 86, 69, 76, 79, 80,
       77, 69, 78, 84 >>

\* the lines "- <title>", one for each title, each ended by a line break
RECURSIVE TitleLines(_)
TitleLines(ts) ==
    IF ts = << >> THEN << >>
    ELSE << 45, 32 >> (* "- " *) \o PyStr(Head(ts)) \o << 10 >> (* "\n" *) \o TitleLines(Tail(ts))

\* C9: the prompt holds the dedup block iff there are recent titles; with
\* titles, the heading line is followed by the titles, one per line, in list
\* order, each after "- ", then an empty line and the closing text; with none
\* (as when the history file is absent) neither the heading nor the closing
\* text occurs and the prompt is the fixed text with the date.
C9_DedupBlock ==
    \A n \in 1..Len(requests) :
        LET prompt == requests[n].prompt
        IN /\ (fileAtStart.kind = "missing") => (recent_titles = << >>)
           /\ Contains(prompt, DedupHeading) <=> (recent_titles # << >>)
           /\ Contains(prompt, DedupClosing) <=> (recent_titles # << >>)
           /\ (recent_titles = << >>) =>
                 prompt = PROMPT_HEAD \o StrftimeBdY(requests[n].day)
                          \o PROMPT_BODY \o PROMPT_TAIL
           /\ (recent_titles # << >>) =>
                 Contains(prompt,
                          << 10 >> (* "\n" *) \o DedupHeading \o << 10 >> (* "\n" *) \o TitleLines(recent_titles)
                          \o << 10 >> (* "\n" *) \o DedupClosing)

C9_Witness ==
    /\ Len(requests) = 1
    /\ Len(recent_titles) = 2
    /\ recent_titles[1] # recent_titles[2]
    /\ Contains(requests[1].prompt, << 10, 45, 32, 98, 32, 99, 10, 45, 32, 45, 32, 120, 44, 32, 121, 10, 10, 73, 102, 32, 97, 32, 115, 116, 111, 114, 121 >> (* "\n- b c\n- - x, y\n\nIf a story" *))

\* C10: every title handed to fetch_news_digest comes from a history entry
\* dated within the HISTORY_DAYS days up to the day of the run.
C10_TitlesWithinWindow ==
    (pc = "titled") =>
        recent_titles =
            get_recent_titles(
                JDict(SelectSeq(history.v,
                                LAMBDA e : e.key \in DateKeys((now - HISTORY_DAYS)..now))))

====
